---- MODULE Spec2Model ----
\* Display value recomputation of nion.swift.model.Display: the calculator
\* (CalculatedDisplayValues), the worker threads that run it and the calls
\* that invalidate it, force it or shut it down.
EXTENDS Integers, Sequences, FiniteSets, TLC

\* ---------------------------------------------------------------- bounds

\* datasets 1..MaxData can be handed to update_data (0 stands for None; the
\* even ones are complex)
MaxData == 2
\* number of calls into the Display (mutations, subscriptions, force-now
\* calls, close) that start in one behaviour
MaxOps == 3

\* the largest trailing dimension of a dataset
MaxDepth == 3

\* the size of a sequence and of a collection dimension
Frames == 2

\* the number of graphics a Display is given
MaxGraphics == 3

\* the number of update_data calls an image panel makes
MaxUpdates == 3

\* ---------------------------------------------------------------- values

\* None where the value is a number
NoneV == 0 - 1
\* None where the value is a tuple or an array
NoneT == << >>

\* the threads that call into the Display: the thread that owns the Display
\* (it also subscribes listeners and closes it) and another thread; and the
\* slots a worker thread object can occupy (a slot is reused once nobody holds
\* the thread object)
Owner == "owner"
Callers == {Owner, "other"}
Slots == 1 .. (Cardinality(Callers) + 2)

\* complex_display_type: 0 is None (log-absolute), 1 is an explicit mode
ComplexDisplayTypes == {0, 1}
\* display_limits as __validate_display_limits admits them: None, a full
\* ordered pair, a pair with one side None
DisplayLimitChoices == {NoneT, <<0, 50>>, <<0, NoneV>>}
\* color_map_data: 0 is None (grayscale), 1 a lookup table
ColorMaps == {0, 1}

\* the dtype classification of a dataset: even datasets are complex
IsComplex(d) == d # 0 /\ d % 2 = 0
\* the timestamp of a dataset
Timestamp(d) == d

\* ---------------------------------------------------------------- pipeline

\* Core.function_display_data: the reduced data, a function of the dataset
\* and, for complex data, of the complex display type
function_display_data(d, cdt) == <<d, IF IsComplex(d) THEN cdt ELSE 0>>

\* numpy.amin / numpy.amax of the display data
Amin(dd) == 10 * dd[1] + dd[2]
Amax(dd) == Amin(dd) + 5

\* the values the element at the 5% position of a sorted random sample can take
SampleChoices(dd) == {Amin(dd), Amin(dd) + 1}

calculate_display_data_and_metadata(inp) ==
    IF inp.data_and_metadata # 0
    THEN function_display_data(inp.data_and_metadata, inp.complex_display_type)
    ELSE NoneT

calculate_data_range(inp, dd) ==
    IF dd # NoneT /\ inp.data_and_metadata # 0 THEN <<Amin(dd), Amax(dd)>> ELSE NoneT

\* smp is the element the random sample puts at its 5% position
calculate_data_sample(inp, dd, smp) ==
    IF dd # NoneT /\ inp.data_and_metadata # 0 /\ IsComplex(inp.data_and_metadata)
    THEN <<smp>>
    ELSE NoneT

\* calculate_display_range subscripts data_range without testing it for None
display_range_raises(display_limits, data_range) ==
    /\ display_limits # NoneT
    /\ data_range = NoneT
    /\ (display_limits[1] = NoneV \/ display_limits[2] = NoneV)

\* a display range that takes the sample of complex data before the limits
calculate_display_range_sample_first(display_limits, data_range, data_sample, xdata, cdt) ==
    IF xdata # 0 /\ IsComplex(xdata) /\ cdt = 0 /\ data_sample # NoneT
    THEN <<data_sample[1], data_range[2]>>
    ELSE IF display_limits # NoneT
         THEN << IF display_limits[1] # NoneV THEN display_limits[1] ELSE data_range[1],
                 IF display_limits[2] # NoneV THEN display_limits[2] ELSE data_range[2] >>
         ELSE data_range

calculate_display_range(display_limits, data_range, data_sample, xdata, cdt) ==
    IF display_limits # NoneT
    THEN << IF display_limits[1] # NoneV THEN display_limits[1] ELSE data_range[1],
            IF display_limits[2] # NoneV THEN display_limits[2] ELSE data_range[2] >>
    ELSE IF xdata # 0 /\ IsComplex(xdata) /\ cdt = 0 /\ data_sample # NoneT
         THEN <<data_sample[1], data_range[2]>>
         ELSE data_range

\* Core.function_display_rgba: the image, a function of the display data, the
\* display range and the color map
function_display_rgba(dd, display_range, cmap) == <<dd, display_range, cmap>>

calculate_display_rgba(inp, dd, data_range, data_sample) ==
    IF dd # NoneT /\ inp.data_and_metadata # 0 /\ data_range # NoneT
    THEN [rgba |-> function_display_rgba(dd,
                        calculate_display_range(inp.display_limits, data_range, data_sample,
                                                inp.data_and_metadata, inp.complex_display_type),
                        inp.color_map_data),
          ts |-> Timestamp(dd[1])]
    ELSE [rgba |-> NoneT, ts |-> NoneV]

\* CalculatedDisplayValues.__calculate on a copy cp = [inputs, dirty, values]:
\* the stages whose dirty flag the copy carries are recomputed, the others keep
\* the values the copy carries. The result is [raised, values].
calculate(cp, smp) ==
    LET inp == cp.inputs
        old == cp.values
        dd  == IF cp.dirty.display_data THEN calculate_display_data_and_metadata(inp)
               ELSE old.display_data_and_metadata
        dr  == IF cp.dirty.display_data THEN calculate_data_range(inp, dd) ELSE old.data_range
        ds  == IF cp.dirty.display_data THEN calculate_data_sample(inp, dd, smp) ELSE old.data_sample
        bad == cp.dirty.display_range /\ display_range_raises(inp.display_limits, dr)
        rng == IF cp.dirty.display_range /\ ~bad
               THEN calculate_display_range(inp.display_limits, dr, ds,
                                            inp.data_and_metadata, inp.complex_display_type)
               ELSE old.display_range
        img == IF cp.dirty.display_rgba
               THEN calculate_display_rgba(inp, dd, dr, ds)
               ELSE [rgba |-> old.display_rgba, ts |-> old.display_rgba_timestamp]
    IN  [raised |-> bad,
         values |-> [display_data_and_metadata |-> dd, data_range |-> dr, data_sample |-> ds,
                     display_range |-> rng, display_rgba |-> img.rgba,
                     display_rgba_timestamp |-> img.ts]]

\* ---------------------------------------------------------------- state

VARIABLES
    inputs,             \* the inputs of the calculator (CalculatedDisplayValues)
    dirty,              \* its three dirty flags
    values,             \* its six calculated display values
    listener_count,     \* listeners of calculated_display_values_available_event
    thread,             \* __calculated_display_values_thread: a slot, 0 for None
    pending,            \* __calculated_display_values_pending
    thread_ok,          \* __calculated_display_values_thread_ok
    test_exception,     \* _calculated_display_values_test_exception
    about_to_be_removed,\* _about_to_be_removed
    closed,             \* _closed
    lockL,              \* holder of __calculated_display_values_lock
    lockTL,             \* holder of __calculated_display_values_thread_lock
    workers,            \* the worker threads, by slot
    pc,                 \* where each caller is in the call it makes
    loc,                \* the local variables of each caller's call
    hist,               \* history: counters of the bounded inputs, what was observed
    obs,                \* history: what the listeners have been sent
    rw,                 \* update_values and values() field by field: positions, partial tuples
    props,              \* the Display's slice properties, its dataset's shape, _is_reading
    graphics,           \* the Display's graphics, their listeners, graphic_selection
    connection,         \* a PropertyConnection with its source and its target
    interval_list,      \* an IntervalListConnection with its display and its line profile
    display_thread      \* an ImagePanel's DisplayThread and the data items handed to it

vars == <<inputs, dirty, values, listener_count, thread, pending, thread_ok, test_exception,
          about_to_be_removed, closed, lockL, lockTL, workers, pc, loc, hist, obs, rw, props,
          graphics, connection, interval_list, display_thread>>

\* the holder of a lock: a caller, a worker thread, or nobody
Free == ""
CallerId(c) == c
WorkerId(s) == "worker" \o ToString(s)

InitInputs == [data_and_metadata |-> 0, complex_display_type |-> 0,
               display_limits |-> NoneT, color_map_data |-> 0]
InitValues == [display_data_and_metadata |-> NoneT, data_range |-> NoneT, data_sample |-> NoneT,
               display_range |-> NoneT, display_rgba |-> NoneT, display_rgba_timestamp |-> NoneV]
AllDirty == [display_data |-> TRUE, display_range |-> TRUE, display_rgba |-> TRUE]
AllClean == [display_data |-> FALSE, display_range |-> FALSE, display_rgba |-> FALSE]
NoCopy == [inputs |-> InitInputs, dirty |-> AllClean, values |-> InitValues]

\* a slot no thread object occupies
\* beside the thread's position and its copy of the calculator: whether its run
\* raised ("test", "pipeline"), wrote values back, how often it fired the
\* listener event and with what, whether a mutation set the pending flag on it
FreeWorker == [pc |-> "free", copy |-> NoCopy, raised |-> "", wrote |-> FALSE, nfired |-> 0,
               fired |-> InitValues, invalidated |-> FALSE]
\* the locals of a call: the input a mutator sets, the thread object held, the
\* copy of the calculator; and of a force-now call the path taken, the events
\* it fired, the thread it waited for, the values returned, whether a mutation
\* ran during the call, the values the call before returned
NoLoc == [kind |-> "", began_open |-> TRUE, t |-> 0, copy |-> NoCopy, path |-> "", nfired |-> 0,
          fired |-> InitValues, awaited |-> FreeWorker, ret |-> InitValues, overlap |-> FALSE,
          base |-> [ok |-> FALSE, values |-> InitValues]]

\* history: the calls started so far and how many may start; with track, also
\* what the force-now calls observe (a mutation during the call, the values
\* the last call returned, an exception of the pipeline, a mutation no
\* listener was there for); whether close() found a thread to join; and with
\* follow, whether a run has raised since the last step of a mutation
InitHist == [nops |-> 0, budget |-> MaxOps, track |-> FALSE, raised |-> FALSE, heard |-> TRUE,
             prev |-> [ok |-> FALSE, values |-> InitValues], joined |-> FALSE,
             follow |-> FALSE, failed |-> FALSE]

\* the six fields in the order update_values writes and values() reads them
Fields == <<"display_data_and_metadata", "data_range", "data_sample", "display_range",
            "display_rgba", "display_rgba_timestamp">>

\* nobody reads or writes the values field by field: the next field of the
\* writer (w) and of the reader (r), 0 when there is none; the reader's tuple
\* so far; the snapshots update_values was ever called with
InitRw == [w |-> 0, r |-> 0, buf |-> InitValues, snaps |-> {InitValues}]

\* what the validators read of a dataset; dimensional_shape is NoneT when the
\* Display has no dataset
NoShape == [is_sequence |-> FALSE, collection_dimension_count |-> 0, dimensional_shape |-> NoneT]

\* no setter of a slice property and no update_data has been called yet
NoCall == [name |-> "none", value |-> 0]

\* the slice properties as define_property declares them, no dataset, not
\* reading; call is the last call that wrote them, with its argument, and
\* announced tells whether display_data_will_change_event has fired for it
InitProps == [sequence_index |-> 0, collection_index |-> <<0, 0, 0>>, slice_center |-> 0,
              slice_width |-> 1, is_reading |-> FALSE, shape |-> NoShape, call |-> NoCall,
              announced |-> FALSE]

\* history of the listeners: whether it is kept (on), and with it the order of
\* what is sent (seq); whether the pipeline raised;
\* whether a listener subscribed with send=True, and whether one still waits
\* for its first event; whether every dataset handed to update_data so far was there and no
\* older than the one before; the dataset of the display data last sent (0:
\* absent) and the last display_rgba_timestamp sent that was not None
InitObs == [on |-> FALSE, seq |-> FALSE, raised |-> FALSE, sent |-> FALSE,
            unnotified |-> FALSE, ordered |-> TRUE, dd |-> 0, ts |-> NoneV]

\* calculated_display_values_available_event.fire(v) as the listeners see it
deliver(o, v) ==
    IF o.on /\ listener_count > 0
    THEN [o EXCEPT !.unnotified = FALSE,
                   !.dd = IF ~o.seq THEN @
                          ELSE IF v.display_data_and_metadata = NoneT THEN 0
                          ELSE v.display_data_and_metadata[1],
                   !.ts = IF ~o.seq \/ v.display_rgba_timestamp = NoneV THEN @
                          ELSE v.display_rgba_timestamp]
    ELSE o

note_raise(o) == IF o.on THEN [o EXCEPT !.raised = TRUE] ELSE o

note_data(o, name, value) ==
    IF o.seq /\ name = "data_and_metadata" /\ (value = 0 \/ value < inputs.data_and_metadata)
    THEN [o EXCEPT !.ordered = FALSE]
    ELSE o

note_subscribed(o, send) ==
    IF o.on /\ send THEN [o EXCEPT !.sent = TRUE, !.unnotified = TRUE] ELSE o

\* the graphics of a Display
Graphics == 1 .. MaxGraphics

\* what close() finds when it is called (kept with track only)
NoBefore == [thread_ok |-> TRUE, thread |-> 0, graphic_changed_listeners |-> << >>,
             indexes |-> {}, graphic_selection |-> TRUE, selection_listener |-> TRUE]

\* a Display without graphics: the graphics, the graphic whose
\* graphic_changed_event each of __graphic_changed_listeners listens to, the
\* indexes of graphic_selection, whether graphic_selection and
\* __graphic_selection_changed_event_listener are not None; and, with track,
\* history of the lifecycle calls: the exception the last one raised, how
\* often each has completed, what the last close() found
InitGraphics == [items |-> << >>, graphic_changed_listeners |-> << >>, indexes |-> {},
                 graphic_selection |-> TRUE, selection_listener |-> TRUE,
                 track |-> FALSE, call |-> "", raised |-> "",
                 completed |-> [about_to_be_removed |-> 0, close |-> 0],
                 before |-> NoBefore]

\* a PropertyConnection constructed with a source and a target whose bound
\* properties are 0: the two property values; whether the target property has
\* a validator; whether __binding and __target_property_changed_listener are
\* there; whether the item proxies are there; __suppress, _about_to_be_removed,
\* _closed; and history: the last call, the exception it raised, how often
\* the lifecycle calls have completed
InitConnection == [source_value |-> 0, target_value |-> 0, target_validates |-> FALSE,
                   binding |-> TRUE, target_listener |-> TRUE, proxies |-> TRUE,
                   suppress |-> FALSE, about_to_be_removed |-> FALSE, closed |-> FALSE,
                   call |-> "", raised |-> "",
                   completed |-> [about_to_be_removed |-> 0, close |-> 0]]

\* an IntervalListConnection constructed without display and line profile, and
\* a display without graphics: the display's graphics and the interval of each
\* graphic, the graphic each of __interval_mutated_listeners listens to, the
\* line profile's interval_descriptors, whether the source and the target are
\* registered; and the last call
InitIntervalList == [items |-> << >>, interval |-> [g \in Graphics |-> 0],
                     interval_mutated_listeners |-> << >>, interval_descriptors |-> << >>,
                     source |-> FALSE, target |-> FALSE, call |-> ""]

\* the data items of an image panel, the callers of display_changed, and the
\* caller of ImagePanel.close as a holder of the thread lock
DataItems == {1, 2}
Updaters == {1, 2}
Closer == 3

\* None as DisplayThread.__data_item; a data item is kept with the number of
\* the update_data call that handed it over
NoData == [item |-> 0, seq |-> 0]

\* ImagePanel.__init__, DisplayThread.__init__ and ProcessingThread.__init__:
\* the thread is started and waits for thread_event. pc is the position of
\* __process and data its local, caller the position of each display_changed,
\* closing the position of ImagePanel.close, display_thread whether
\* ImagePanel.__display_thread is set; refs counts add_ref less remove_ref of
\* each data item, handed the handle_data calls, invoked the process_data
\* calls and processed the number of the data process_data was last given
InitDisplayThread == [thread_break |-> FALSE, thread_event |-> FALSE,
                      thread_ended_event |-> FALSE, thread_lock |-> 0,
                      data_item |-> NoData, pc |-> "wait", data |-> NoData,
                      closed |-> FALSE, display_thread |-> TRUE,
                      caller |-> [u \in Updaters |-> "idle"], closing |-> "idle",
                      refs |-> [d \in DataItems |-> 0],
                      handed |-> 0, invoked |-> 0, processed |-> 0, raised |-> ""]

\* Display.__init__: every _set_* call of the constructor marks its stages dirty
Init ==
    /\ inputs = InitInputs
    /\ dirty = AllDirty
    /\ values = InitValues
    /\ listener_count = 0
    /\ thread = 0
    /\ pending = FALSE
    /\ thread_ok = TRUE
    /\ test_exception = FALSE
    /\ about_to_be_removed = FALSE
    /\ closed = FALSE
    /\ lockL = Free
    /\ lockTL = Free
    /\ workers = [s \in Slots |-> FreeWorker]
    /\ pc = [c \in Callers |-> "idle"]
    /\ loc = [c \in Callers |-> NoLoc]
    /\ hist = InitHist
    /\ obs = InitObs
    /\ rw = InitRw
    /\ props = InitProps
    /\ graphics = InitGraphics
    /\ connection = InitConnection
    /\ interval_list = InitIntervalList
    /\ display_thread = InitDisplayThread

\* ---------------------------------------------------------------- helpers

\* the inputs of the calculator: the dataset, the properties the model keeps in
\* inputs, and the sequence and slice properties
InputKinds == {"complex_display_type", "display_limits", "color_map_data"}
SliceKinds == {"sequence_index", "collection_index", "slice_center", "slice_width"}
MutKinds == {"data_and_metadata"} \cup InputKinds \cup SliceKinds
ForcePcs == {"f_join", "f_copy", "f_calc", "f_pend", "f_fire", "f_ret", "f_done"}
SendPcs == {"m_dirty", "s_send", "s_spawn"}

\* a mutation is in progress in caller c
Mutating(c) == pc[c] \in SendPcs /\ loc[c].kind \in MutKinds

\* some caller holds the thread object of slot s (to join it)
Awaited(s) == \E c \in Callers : loc[c].t = s

LowestFree(w) == CHOOSE n \in Slots : w[n].pc = "free" /\ \A m \in Slots : m < n => w[m].pc # "free"

\* threading.Thread(target=self.__calculate_display_values).start()
start_thread(w) == [w EXCEPT ![LowestFree(w)] = [FreeWorker EXCEPT !.pc = "w_begin"]]

\* the thread of slot s ends; the thread object lives while somebody holds it
thread_exit(w, s) == IF Awaited(s) THEN [w EXCEPT ![s].pc = "done"] ELSE [w EXCEPT ![s] = FreeWorker]

\* caller c drops the thread object of slot s
drop_thread(w, c, s) ==
    IF \E d \in Callers \ {c} : loc[d].t = s THEN w ELSE [w EXCEPT ![s] = FreeWorker]

\* history: a step of a mutation by caller c is seen by the force-now calls in progress
note_mutation(l, c) ==
    [d \in Callers |-> IF hist.track /\ d # c /\ pc[d] \in ForcePcs
                       THEN [l[d] EXCEPT !.overlap = TRUE, !.base = [ok |-> FALSE, values |-> InitValues]]
                       ELSE l[d]]

note_step(l, c) == IF loc[c].kind \in MutKinds THEN note_mutation(l, c) ELSE l

forget_prev(h) == [h EXCEPT !.prev = [ok |-> FALSE, values |-> InitValues], !.failed = FALSE]

\* history: a run has raised
note_failure(h) == [h EXCEPT !.raised = @ \/ h.track, !.failed = @ \/ h.follow]

\* setters that mark the stage the parameter feeds and not the stages after it
set_dirty_own_stage(kind, f) ==
    CASE kind \in {"data_and_metadata", "complex_display_type"} \cup SliceKinds
            -> [f EXCEPT !.display_data = TRUE]
      [] kind = "display_limits" -> [f EXCEPT !.display_range = TRUE]
      [] kind = "color_map_data" -> [f EXCEPT !.display_rgba = TRUE]

\* setters that all mark every stage
set_dirty_all(kind, f) == AllDirty

\* the dirty flags after the _set_* method of an input
set_dirty(kind, f) ==
    CASE kind \in {"data_and_metadata", "complex_display_type"} \cup SliceKinds -> AllDirty
      [] kind = "display_limits" -> [f EXCEPT !.display_range = TRUE, !.display_rgba = TRUE]
      [] kind = "color_map_data" -> [f EXCEPT !.display_rgba = TRUE]

\* ---------------------------------------------------------------- mutators

\* _set_<name>(value): the input is written, outside the calculator's lock
set_input(c, name, value) ==
    /\ pc[c] = "idle"
    /\ hist.nops < hist.budget
    /\ inputs' = [inputs EXCEPT ![name] = value]
    /\ pc' = [pc EXCEPT ![c] = "m_dirty"]
    /\ loc' = note_mutation([loc EXCEPT ![c].kind = name, ![c].began_open = ~closed], c)
    /\ hist' = forget_prev([hist EXCEPT !.nops = @ + 1])
    /\ UNCHANGED <<dirty, values, listener_count, thread, pending, thread_ok, test_exception,
                   about_to_be_removed, closed, lockL, lockTL, workers>>
    /\ obs' = note_data(obs, name, value)
    /\ UNCHANGED <<rw, props>>
    /\ UNCHANGED <<graphics, connection, interval_list, display_thread>>

\* Display.__property_changed for a property the calculator reads, up to the
\* write of the input. The sequence and slice properties stay at their defaults
\* here, which validate_slice_indexes leaves alone for every dataset.
property_changed(c) ==
    \/ \E v \in DisplayLimitChoices \ {inputs.display_limits} :
            set_input(c, "display_limits", v)
    \/ \E v \in ComplexDisplayTypes \ {inputs.complex_display_type} :
            set_input(c, "complex_display_type", v)

\* Display.update_data up to the write of the calculator's input
update_data(c) ==
    \E d \in 0 .. MaxData : set_input(c, "data_and_metadata", d)

\* _set_<name>: the dirty flags, under the calculator's lock
mark_dirty(c) ==
    /\ pc[c] = "m_dirty"
    /\ dirty' = set_dirty(loc[c].kind, dirty)
    /\ pc' = [pc EXCEPT ![c] = "s_send"]
    /\ loc' = note_mutation(loc, c)
    /\ hist' = forget_prev(hist)
    /\ UNCHANGED <<inputs, values, listener_count, thread, pending, thread_ok, test_exception,
                   about_to_be_removed, closed, lockL, lockTL, workers>>
    /\ UNCHANGED <<obs, rw, props>>
    /\ UNCHANGED <<graphics, connection, interval_list, display_thread>>

\* Display.add_calculated_display_values_listener(callback, send)
add_calculated_display_values_listener(c) ==
    /\ pc[c] = "idle"
    /\ hist.nops < hist.budget
    /\ listener_count' = listener_count + 1
    /\ hist' = [hist EXCEPT !.nops = @ + 1]
    /\ \E send \in BOOLEAN :
         /\ obs' = note_subscribed(obs, send)
         /\ IF send
            THEN /\ pc' = [pc EXCEPT ![c] = "s_send"]
                 /\ loc' = [loc EXCEPT ![c].kind = "listen", ![c].began_open = ~closed]
            ELSE UNCHANGED <<pc, loc>>
    /\ UNCHANGED <<inputs, dirty, values, thread, pending, thread_ok, test_exception,
                   about_to_be_removed, closed, lockL, lockTL, workers>>
    /\ UNCHANGED <<rw, props>>
    /\ UNCHANGED <<graphics, connection, interval_list, display_thread>>

\* a send_next that sees no listener
has_listeners_never == FALSE

\* if self.__calculated_display_values_available_event.listener_count > 0:
has_listeners == listener_count > 0

\* a send_next that takes the thread for absent
thread_running_ignored == FALSE

\* if self.__calculated_display_values_thread:
thread_running == thread # 0

\* Display.__send_next_calculated_display_values, under the values lock: the
\* pending flag is set when a thread is there; else it is cleared and, with a
\* listener, the caller goes on to start a thread, keeping the lock
send_next_calculated_display_values(c) ==
    /\ pc[c] = "s_send"
    /\ lockL = Free
    /\ IF thread_running
       THEN /\ pending' = TRUE
            /\ workers' = [workers EXCEPT ![thread].invalidated = @ \/ loc[c].kind \in MutKinds]
            /\ pc' = [pc EXCEPT ![c] = "idle"]
            /\ loc' = note_step([loc EXCEPT ![c] = NoLoc], c)
            /\ UNCHANGED lockL
       ELSE /\ pending' = FALSE
            /\ UNCHANGED workers
            /\ IF has_listeners
               THEN /\ lockL' = CallerId(c)
                    /\ pc' = [pc EXCEPT ![c] = "s_spawn"]
                    /\ loc' = note_step(loc, c)
               ELSE /\ pc' = [pc EXCEPT ![c] = "idle"]
                    /\ loc' = note_step([loc EXCEPT ![c] = NoLoc], c)
                    /\ UNCHANGED lockL
    /\ hist' = IF loc[c].kind \in MutKinds
               THEN forget_prev([hist EXCEPT !.heard = ~hist.track \/ listener_count > 0])
               ELSE hist
    /\ UNCHANGED <<inputs, dirty, values, listener_count, thread, thread_ok, test_exception,
                   about_to_be_removed, closed, lockTL>>
    /\ UNCHANGED <<obs, rw, props>>
    /\ UNCHANGED <<graphics, connection, interval_list, display_thread>>

\* a scheduler that does not keep the thread it started
started_thread_forgotten(w) == 0

\* self.__calculated_display_values_thread = calculated_display_values_thread
started_thread(w) == LowestFree(w)

\* ... and the start of the thread, under the thread lock
send_next_start_thread(c) ==
    /\ pc[c] = "s_spawn"
    /\ lockTL = Free
    /\ workers' = start_thread(workers)
    /\ thread' = started_thread(workers)
    /\ lockL' = Free
    /\ pc' = [pc EXCEPT ![c] = "idle"]
    /\ loc' = note_step([loc EXCEPT ![c] = NoLoc], c)
    /\ hist' = IF loc[c].kind \in MutKinds THEN forget_prev(hist) ELSE hist
    /\ UNCHANGED <<inputs, dirty, values, listener_count, pending, thread_ok, test_exception,
                   about_to_be_removed, closed, lockTL>>
    /\ UNCHANGED <<obs, rw, props>>
    /\ UNCHANGED <<graphics, connection, interval_list, display_thread>>

\* ---------------------------------------------------------------- calculator

\* CalculatedDisplayValues.copy_and_calculate, the part under the calculator's
\* lock: the copy taken and the parent's dirty flags cleared
copy_and_clear == [inputs |-> inputs, dirty |-> dirty, values |-> values]

\* what __calculate makes of a copy: [raised, values], for each value the
\* random sample can give
calculated(cp) ==
    LET dd == calculate_display_data_and_metadata(cp.inputs)
    IN  IF cp.dirty.display_data /\ dd # NoneT /\ IsComplex(cp.inputs.data_and_metadata)
        THEN {calculate(cp, smp) : smp \in SampleChoices(dd)}
        ELSE {calculate(cp, 0)}

\* ---------------------------------------------------------------- worker

\* Display.__calculate_display_values, the start of the try block: the test
\* exception, or the copy of the calculator
worker_begin(s) ==
    /\ workers[s].pc = "w_begin"
    /\ IF test_exception
       THEN /\ test_exception' = FALSE
            /\ workers' = [workers EXCEPT ![s].pc = "w_end", ![s].raised = "test"]
            /\ hist' = note_failure(hist)
            /\ obs' = note_raise(obs)
            /\ UNCHANGED dirty
       ELSE /\ workers' = [workers EXCEPT ![s].pc = "w_calc", ![s].copy = copy_and_clear]
            /\ dirty' = AllClean
            /\ UNCHANGED <<test_exception, hist, obs>>
    /\ UNCHANGED <<inputs, values, listener_count, thread, pending, thread_ok,
                   about_to_be_removed, closed, lockL, lockTL, pc, loc>>
    /\ UNCHANGED <<rw, props>>
    /\ UNCHANGED <<graphics, connection, interval_list, display_thread>>

\* a worker that fires the event whether or not the calculation raised
worker_after_calculate_always_fires(raised) == "w_fire"

\* where the try block goes on after copy_and_calculate: to the fire, or, the
\* exception caught, past it
worker_after_calculate(raised) == IF raised THEN "w_end" ELSE "w_fire"

\* __calculate on the copy and update_values on the parent; an exception of the
\* pipeline is caught by the except clause
worker_calculate(s) ==
    /\ workers[s].pc = "w_calc"
    /\ \E r \in calculated(workers[s].copy) :
         IF r.raised
         THEN /\ workers' = [workers EXCEPT ![s].pc = worker_after_calculate(TRUE),
                                            ![s].raised = "pipeline"]
              /\ hist' = note_failure(hist)
              /\ obs' = note_raise(obs)
              /\ UNCHANGED values
         ELSE /\ workers' = [workers EXCEPT ![s].pc = worker_after_calculate(FALSE),
                                            ![s].copy.values = r.values, ![s].wrote = TRUE]
              /\ values' = r.values
              /\ UNCHANGED <<hist, obs>>
    /\ UNCHANGED <<inputs, dirty, listener_count, thread, pending, thread_ok, test_exception,
                   about_to_be_removed, closed, lockL, lockTL, pc, loc>>
    /\ UNCHANGED <<rw, props>>
    /\ UNCHANGED <<graphics, connection, interval_list, display_thread>>

\* calculated_display_values_available_event.fire(display_values)
worker_fire(s) ==
    /\ workers[s].pc = "w_fire"
    /\ workers' = [workers EXCEPT ![s].pc = "w_end", ![s].nfired = @ + 1,
                                  ![s].fired = workers[s].copy.values]
    /\ obs' = deliver(obs, workers[s].copy.values)
    /\ UNCHANGED <<inputs, dirty, values, listener_count, thread, pending, thread_ok,
                   test_exception, about_to_be_removed, closed, lockL, lockTL, pc, loc, hist>>
    /\ UNCHANGED <<rw, props>>
    /\ UNCHANGED <<graphics, connection, interval_list, display_thread>>

\* the end of __calculate_display_values, under the values lock: the pending
\* flag is read and cleared; the thread goes on to start its successor, keeping
\* the lock, or clears the thread and ends
worker_end(s) ==
    /\ workers[s].pc = "w_end"
    /\ lockL = Free
    /\ pending' = FALSE
    /\ IF pending /\ thread_ok
       THEN /\ lockL' = WorkerId(s)
            /\ workers' = [workers EXCEPT ![s].pc = "w_spawn"]
            /\ UNCHANGED thread
       ELSE /\ thread' = 0
            /\ workers' = thread_exit(workers, s)
            /\ UNCHANGED lockL
    /\ UNCHANGED <<inputs, dirty, values, listener_count, thread_ok, test_exception,
                   about_to_be_removed, closed, lockTL, pc, loc, hist>>
    /\ UNCHANGED <<obs, rw, props>>
    /\ UNCHANGED <<graphics, connection, interval_list, display_thread>>

\* ... and the start of the successor, under the thread lock
worker_start_thread(s) ==
    /\ workers[s].pc = "w_spawn"
    /\ lockTL = Free
    /\ LET w == thread_exit(workers, s)
       IN  /\ workers' = start_thread(w)
           /\ thread' = LowestFree(w)
    /\ lockL' = Free
    /\ UNCHANGED <<inputs, dirty, values, listener_count, pending, thread_ok, test_exception,
                   about_to_be_removed, closed, lockTL, pc, loc, hist>>
    /\ UNCHANGED <<obs, rw, props>>
    /\ UNCHANGED <<graphics, connection, interval_list, display_thread>>

\* ---------------------------------------------------------------- force now

\* Display.update_calculated_display_values: the thread is read under the
\* thread lock
update_calculated_display_values(c) ==
    /\ pc[c] = "idle"
    /\ hist.nops < hist.budget
    /\ lockTL = Free
    /\ hist' = [hist EXCEPT !.nops = @ + 1]
    /\ pc' = [pc EXCEPT ![c] = IF thread # 0 THEN "f_join" ELSE "f_copy"]
    /\ loc' = [loc EXCEPT ![c].t = thread,
                          ![c].path = IF thread # 0 THEN "wait" ELSE "inline",
                          ![c].overlap = hist.track /\ \E d \in Callers \ {c} : Mutating(d),
                          ![c].base = IF \E d \in Callers \ {c} : Mutating(d)
                                      THEN [ok |-> FALSE, values |-> InitValues]
                                      ELSE hist.prev]
    /\ UNCHANGED <<inputs, dirty, values, listener_count, thread, pending, thread_ok,
                   test_exception, about_to_be_removed, closed, lockL, lockTL, workers>>
    /\ UNCHANGED <<obs, rw, props>>
    /\ UNCHANGED <<graphics, connection, interval_list, display_thread>>

\* calculated_display_values_thread.join()
force_join(c) ==
    /\ pc[c] = "f_join"
    /\ workers[loc[c].t].pc = "done"
    /\ pc' = [pc EXCEPT ![c] = "f_ret"]
    /\ loc' = [loc EXCEPT ![c].t = 0, ![c].awaited = workers[loc[c].t]]
    /\ workers' = drop_thread(workers, c, loc[c].t)
    /\ UNCHANGED <<inputs, dirty, values, listener_count, thread, pending, thread_ok,
                   test_exception, about_to_be_removed, closed, lockL, lockTL, hist>>
    /\ UNCHANGED <<obs, rw, props>>
    /\ UNCHANGED <<graphics, connection, interval_list, display_thread>>

\* copy_and_calculate on the caller's thread: the copy
force_copy(c) ==
    /\ pc[c] = "f_copy"
    /\ pc' = [pc EXCEPT ![c] = "f_calc"]
    /\ loc' = [loc EXCEPT ![c].copy = copy_and_clear]
    /\ dirty' = AllClean
    /\ UNCHANGED <<inputs, values, listener_count, thread, pending, thread_ok, test_exception,
                   about_to_be_removed, closed, lockL, lockTL, workers, hist>>
    /\ UNCHANGED <<obs, rw, props>>
    /\ UNCHANGED <<graphics, connection, interval_list, display_thread>>

\* ... __calculate and update_values; an exception of the pipeline leaves the call
force_calculate(c) ==
    /\ pc[c] = "f_calc"
    /\ \E r \in calculated(loc[c].copy) :
         IF r.raised
         THEN /\ pc' = [pc EXCEPT ![c] = "idle"]
              /\ loc' = [loc EXCEPT ![c] = NoLoc]
              /\ hist' = note_failure(hist)
              /\ obs' = note_raise(obs)
              /\ UNCHANGED values
         ELSE /\ pc' = [pc EXCEPT ![c] = "f_pend"]
              /\ loc' = [loc EXCEPT ![c].copy.values = r.values]
              /\ values' = r.values
              /\ UNCHANGED <<hist, obs>>
    /\ UNCHANGED <<inputs, dirty, listener_count, thread, pending, thread_ok, test_exception,
                   about_to_be_removed, closed, lockL, lockTL, workers>>
    /\ UNCHANGED <<rw, props>>
    /\ UNCHANGED <<graphics, connection, interval_list, display_thread>>

\* an inline path that returns without firing the event
force_after_clear_pending_silent == "f_ret"

\* where the inline path goes on after the pending flag: to the fire
force_after_clear_pending == "f_fire"

\* the pending flag cleared under the values lock
force_clear_pending(c) ==
    /\ pc[c] = "f_pend"
    /\ lockL = Free
    /\ pending' = FALSE
    /\ pc' = [pc EXCEPT ![c] = force_after_clear_pending]
    /\ UNCHANGED <<inputs, dirty, values, listener_count, thread, thread_ok, test_exception,
                   about_to_be_removed, closed, lockL, lockTL, workers, loc, hist>>
    /\ UNCHANGED <<obs, rw, props>>
    /\ UNCHANGED <<graphics, connection, interval_list, display_thread>>

\* calculated_display_values_available_event.fire(next_calculated_display_values.values())
force_fire(c) ==
    /\ pc[c] = "f_fire"
    /\ pc' = [pc EXCEPT ![c] = "f_ret"]
    /\ loc' = [loc EXCEPT ![c].nfired = @ + 1, ![c].fired = loc[c].copy.values]
    /\ obs' = deliver(obs, loc[c].copy.values)
    /\ UNCHANGED <<inputs, dirty, values, listener_count, thread, pending, thread_ok,
                   test_exception, about_to_be_removed, closed, lockL, lockTL, workers, hist>>
    /\ UNCHANGED <<rw, props>>
    /\ UNCHANGED <<graphics, connection, interval_list, display_thread>>

\* Display.get_calculated_display_values(immediate=True): the values returned
get_calculated_display_values(c) ==
    /\ pc[c] = "f_ret"
    /\ pc' = [pc EXCEPT ![c] = "f_done"]
    /\ loc' = [loc EXCEPT ![c].ret = values]
    /\ hist' = [hist EXCEPT !.prev = IF loc[c].overlap \/ ~hist.track THEN hist.prev
                                     ELSE [ok |-> TRUE, values |-> values]]
    /\ UNCHANGED <<inputs, dirty, values, listener_count, thread, pending, thread_ok,
                   test_exception, about_to_be_removed, closed, lockL, lockTL, workers>>
    /\ UNCHANGED <<obs, rw, props>>
    /\ UNCHANGED <<graphics, connection, interval_list, display_thread>>

\* the caller goes on with the values it got
force_done(c) ==
    /\ pc[c] = "f_done"
    /\ pc' = [pc EXCEPT ![c] = "idle"]
    /\ loc' = [loc EXCEPT ![c] = NoLoc]
    /\ UNCHANGED <<inputs, dirty, values, listener_count, thread, pending, thread_ok,
                   test_exception, about_to_be_removed, closed, lockL, lockTL, workers, hist>>
    /\ UNCHANGED <<obs, rw, props>>
    /\ UNCHANGED <<graphics, connection, interval_list, display_thread>>

\* ---------------------------------------------------------------- graphics

\* GraphicSelection.insert_index with indexes at new_index left where they are
insert_index_after(indexes, new_index) ==
    {IF index <= new_index THEN index ELSE index + 1 : index \in indexes}

\* GraphicSelection.insert_index
insert_index(indexes, new_index) ==
    {IF index < new_index THEN index ELSE index + 1 : index \in indexes}

\* GraphicSelection.remove_index
remove_index(indexes, index_removed) ==
    {IF index > index_removed THEN index - 1 ELSE index : index \in indexes \ {index_removed}}

\* list.insert(before_index, item) and del list[index], indexes from 0
list_insert(list, before_index, item) ==
    SubSeq(list, 1, before_index) \o <<item>> \o SubSeq(list, before_index + 1, Len(list))

list_remove(list, index) ==
    SubSeq(list, 1, index) \o SubSeq(list, index + 2, Len(list))

\* Display.selected_graphics, as a set
selected_graphics(g) == {g.items[i + 1] : i \in g.indexes \cap (0 .. (Len(g.items) - 1))}

\* Display.__disconnect_graphic(graphic, index): the listener at index is
\* closed and removed, the selection loses the index
disconnect_graphic(g, index) ==
    [g EXCEPT !.graphic_changed_listeners = list_remove(@, index),
              !.indexes = remove_index(@, index)]

RECURSIVE disconnect_all(_, _)
\* for graphic in copy.copy(self.graphics): self.__disconnect_graphic(graphic, 0)
disconnect_all(g, n) == IF n = 0 THEN g ELSE disconnect_all(disconnect_graphic(g, 0), n - 1)

\* Display.close from the listener of the selection to graphic_selection = None
close_graphics(g) ==
    [disconnect_all(g, Len(g.items)) EXCEPT !.selection_listener = FALSE,
                                            !.graphic_selection = FALSE]

\* history: a lifecycle call has ended, with the exception it raised ("": none)
note_call(g, name, exception) ==
    IF g.track
    THEN [g EXCEPT !.call = name, !.raised = exception,
                   !.completed = IF exception = "" THEN [@ EXCEPT ![name] = @ + 1] ELSE @]
    ELSE g

\* history: what close() finds when it is called
note_before(g) ==
    IF g.track
    THEN [g EXCEPT !.before = [thread_ok |-> thread_ok, thread |-> thread,
                               graphic_changed_listeners |-> g.graphic_changed_listeners,
                               indexes |-> g.indexes,
                               graphic_selection |-> g.graphic_selection,
                               selection_listener |-> g.selection_listener]]
    ELSE g

\* the thread that owns the Display makes a call that changes its graphics or
\* its selection: no other call of it is in progress, graphic_selection is there
graphics_step(name, g) ==
    /\ pc[Owner] = "idle"
    /\ graphics.graphic_selection
    /\ graphics' = [g EXCEPT !.call = IF g.track THEN name ELSE @,
                             !.raised = IF g.track THEN "" ELSE @]
    /\ UNCHANGED <<inputs, dirty, values, listener_count, thread, pending, thread_ok,
                   test_exception, about_to_be_removed, closed, lockL, lockTL, workers, pc, loc,
                   hist, obs, rw, props>>
    /\ UNCHANGED <<connection, interval_list, display_thread>>

\* Display.insert_graphic(before_index, graphic): the container inserts the
\* graphic into graphics and calls __insert_graphic
insert_graphic ==
    \E graphic \in Graphics : \E before_index \in 0 .. Len(graphics.items) :
        /\ \A i \in 1 .. Len(graphics.items) : graphics.items[i] # graphic
        /\ graphics_step("insert_graphic", [graphics EXCEPT
                !.items = list_insert(@, before_index, graphic),
                !.graphic_changed_listeners = list_insert(@, before_index, graphic),
                !.indexes = insert_index(@, before_index)])

\* Display.remove_graphic(graphic): the container removes the graphic from
\* graphics and calls __remove_graphic with its index
remove_graphic ==
    \E index \in 0 .. (Len(graphics.items) - 1) :
        graphics_step("remove_graphic", disconnect_graphic([graphics EXCEPT !.items = list_remove(@, index)], index))

\* GraphicSelection.set, add, toggle, remove of the index of a graphic, and clear
selection_set ==
    \E index \in 0 .. (Len(graphics.items) - 1) :
        graphics_step("selection_set", [graphics EXCEPT !.indexes = {index}])

selection_add ==
    \E index \in 0 .. (Len(graphics.items) - 1) :
        graphics_step("selection_add", [graphics EXCEPT !.indexes = @ \cup {index}])

selection_toggle ==
    \E index \in 0 .. (Len(graphics.items) - 1) :
        graphics_step("selection_toggle", [graphics EXCEPT !.indexes = IF index \in @ THEN @ \ {index}
                                                   ELSE @ \cup {index}])

selection_remove ==
    \E index \in graphics.indexes :
        graphics_step("selection_remove", [graphics EXCEPT !.indexes = @ \ {index}])

selection_clear ==
    graphics_step("selection_clear", [graphics EXCEPT !.indexes = {}])

\* ---------------------------------------------------------------- lifecycle

\* Display.about_to_be_removed
display_about_to_be_removed(c) ==
    /\ pc[c] = "idle"
    /\ hist.nops < hist.budget
    /\ ~about_to_be_removed
    /\ about_to_be_removed' = TRUE
    /\ hist' = [hist EXCEPT !.nops = @ + 1]
    /\ graphics' = note_call(graphics, "about_to_be_removed", "")
    /\ UNCHANGED <<inputs, dirty, values, listener_count, thread, pending, thread_ok,
                   test_exception, closed, lockL, lockTL, workers, pc, loc>>
    /\ UNCHANGED <<obs, rw, props>>
    /\ UNCHANGED <<connection, interval_list, display_thread>>

\* Display.about_to_be_removed on a Display it has been called on: the event
\* fires, the assertion fails
display_about_to_be_removed_again(c) ==
    /\ pc[c] = "idle"
    /\ hist.nops < hist.budget
    /\ about_to_be_removed
    /\ hist' = [hist EXCEPT !.nops = @ + 1]
    /\ graphics' = note_call(graphics, "about_to_be_removed", "AssertionError")
    /\ UNCHANGED <<inputs, dirty, values, listener_count, thread, pending, thread_ok,
                   test_exception, about_to_be_removed, closed, lockL, lockTL, workers, pc, loc>>
    /\ UNCHANGED <<obs, rw, props>>
    /\ UNCHANGED <<connection, interval_list, display_thread>>

\* Display.close: under the thread lock the ok flag is cleared and the thread
\* tested
close(c) ==
    /\ pc[c] = "idle"
    /\ hist.nops < hist.budget
    /\ lockTL = Free
    /\ hist' = [hist EXCEPT !.nops = @ + 1, !.joined = thread # 0]
    /\ thread_ok' = FALSE
    /\ IF thread # 0
       THEN /\ lockTL' = CallerId(c)
            /\ pc' = [pc EXCEPT ![c] = "c_join"]
       ELSE /\ pc' = [pc EXCEPT ![c] = "c_rest"]
            /\ UNCHANGED lockTL
    /\ graphics' = note_before(graphics)
    /\ UNCHANGED <<inputs, dirty, values, listener_count, thread, pending, test_exception,
                   about_to_be_removed, closed, lockL, workers, loc>>
    /\ UNCHANGED <<obs, rw, props>>
    /\ UNCHANGED <<connection, interval_list, display_thread>>

\* self.__calculated_display_values_thread.join(): the attribute is read again;
\* a thread that ended in between has set it to None, and the call raises
close_read_thread(c) ==
    /\ pc[c] = "c_join"
    /\ IF thread # 0
       THEN /\ pc' = [pc EXCEPT ![c] = "c_wait"]
            /\ loc' = [loc EXCEPT ![c].t = thread]
            /\ UNCHANGED <<lockTL, hist>>
       ELSE /\ pc' = [pc EXCEPT ![c] = "idle"]
            /\ lockTL' = Free
            /\ UNCHANGED <<loc, hist>>
    /\ UNCHANGED <<inputs, dirty, values, listener_count, thread, pending, thread_ok,
                   test_exception, about_to_be_removed, closed, lockL, workers>>
    /\ UNCHANGED <<obs, rw, props>>
    /\ UNCHANGED <<graphics, connection, interval_list, display_thread>>

\* the join returns and the thread is set to None, still under the thread lock
close_join(c) ==
    /\ pc[c] = "c_wait"
    /\ workers[loc[c].t].pc = "done"
    /\ thread' = 0
    /\ lockTL' = Free
    /\ workers' = drop_thread(workers, c, loc[c].t)
    /\ pc' = [pc EXCEPT ![c] = "c_rest"]
    /\ loc' = [loc EXCEPT ![c] = NoLoc]
    /\ UNCHANGED <<inputs, dirty, values, listener_count, pending, thread_ok, test_exception,
                   about_to_be_removed, closed, lockL, hist>>
    /\ UNCHANGED <<obs, rw, props>>
    /\ UNCHANGED <<graphics, connection, interval_list, display_thread>>

\* a close() without assertions
close_asserts_nothing == TRUE

\* assert self._about_to_be_removed; assert not self._closed
close_asserts == about_to_be_removed /\ ~closed

\* the rest of close: the listener of the selection is closed (the call raises
\* when there is none any more), the graphics are disconnected and closed,
\* graphic_selection is set to None; then the two assertions, then _closed
close_finish(c) ==
    /\ pc[c] = "c_rest"
    /\ pc' = [pc EXCEPT ![c] = "idle"]
    /\ IF ~graphics.selection_listener
       THEN /\ graphics' = note_call(graphics, "close", "AttributeError")
            /\ UNCHANGED closed
       ELSE IF close_asserts
            THEN /\ closed' = TRUE
                 /\ graphics' = note_call(close_graphics(graphics), "close", "")
            ELSE /\ UNCHANGED closed
                 /\ graphics' = note_call(close_graphics(graphics), "close", "AssertionError")
    /\ UNCHANGED <<hist, inputs, dirty, values, listener_count, thread, pending, thread_ok,
                   test_exception, about_to_be_removed, lockL, lockTL, workers, loc>>
    /\ UNCHANGED <<obs, rw, props>>
    /\ UNCHANGED <<connection, interval_list, display_thread>>

\* a test arms _calculated_display_values_test_exception
set_test_exception ==
    /\ ~test_exception
    /\ hist.nops < hist.budget
    /\ test_exception' = TRUE
    /\ hist' = [hist EXCEPT !.nops = @ + 1]
    /\ UNCHANGED <<inputs, dirty, values, listener_count, thread, pending, thread_ok,
                   about_to_be_removed, closed, lockL, lockTL, workers, pc, loc>>
    /\ UNCHANGED <<obs, rw, props>>
    /\ UNCHANGED <<graphics, connection, interval_list, display_thread>>

\* ---------------------------------------------------------------- values, field by field

\* __calculate on the copy of an inline call, up to the call of update_values
calculate_on_copy(c) ==
    /\ pc[c] = "f_calc"
    /\ \E r \in calculated(loc[c].copy) :
         IF r.raised
         THEN /\ pc' = [pc EXCEPT ![c] = "idle"]
              /\ loc' = [loc EXCEPT ![c] = NoLoc]
              /\ UNCHANGED rw
         ELSE /\ pc' = [pc EXCEPT ![c] = "f_write"]
              /\ loc' = [loc EXCEPT ![c].copy.values = r.values]
              /\ rw' = [rw EXCEPT !.w = 1, !.snaps = @ \cup {r.values}]
    /\ UNCHANGED <<inputs, dirty, values, listener_count, thread, pending, thread_ok,
                   test_exception, about_to_be_removed, closed, lockL, lockTL, workers, hist,
                   obs, props>>
    /\ UNCHANGED <<graphics, connection, interval_list, display_thread>>

\* CalculatedDisplayValues.update_values: one assignment
update_values_field(c) ==
    /\ pc[c] = "f_write"
    /\ values' = [values EXCEPT ![Fields[rw.w]] = loc[c].copy.values[Fields[rw.w]]]
    /\ IF rw.w < Len(Fields)
       THEN /\ rw' = [rw EXCEPT !.w = @ + 1]
            /\ UNCHANGED pc
       ELSE /\ rw' = [rw EXCEPT !.w = 0]
            /\ pc' = [pc EXCEPT ![c] = "f_pend"]
    /\ UNCHANGED <<inputs, dirty, listener_count, thread, pending, thread_ok, test_exception,
                   about_to_be_removed, closed, lockL, lockTL, workers, loc, hist, obs, props>>
    /\ UNCHANGED <<graphics, connection, interval_list, display_thread>>

\* get_calculated_display_values(immediate=False): values() is entered
values_begin(c) ==
    /\ pc[c] = "idle"
    /\ hist.nops < hist.budget
    /\ hist' = [hist EXCEPT !.nops = @ + 1]
    /\ pc' = [pc EXCEPT ![c] = "v_read"]
    /\ rw' = [rw EXCEPT !.r = 1, !.buf = InitValues]
    /\ UNCHANGED <<inputs, dirty, values, listener_count, thread, pending, thread_ok,
                   test_exception, about_to_be_removed, closed, lockL, lockTL, workers, loc,
                   obs, props>>
    /\ UNCHANGED <<graphics, connection, interval_list, display_thread>>

\* CalculatedDisplayValues.values: one attribute read; after the sixth the
\* DisplayValues tuple is built
values_read_field(c) ==
    /\ pc[c] = "v_read"
    /\ rw' = [rw EXCEPT !.buf[Fields[rw.r]] = values[Fields[rw.r]],
                         !.r = IF rw.r < Len(Fields) THEN @ + 1 ELSE 0]
    /\ pc' = [pc EXCEPT ![c] = IF rw.r < Len(Fields) THEN "v_read" ELSE "v_done"]
    /\ UNCHANGED <<inputs, dirty, values, listener_count, thread, pending, thread_ok,
                   test_exception, about_to_be_removed, closed, lockL, lockTL, workers, loc,
                   hist, obs, props>>
    /\ UNCHANGED <<graphics, connection, interval_list, display_thread>>

\* the reader goes on with the tuple it got
values_return(c) ==
    /\ pc[c] = "v_done"
    /\ pc' = [pc EXCEPT ![c] = "idle"]
    /\ UNCHANGED <<inputs, dirty, values, listener_count, thread, pending, thread_ok,
                   test_exception, about_to_be_removed, closed, lockL, lockTL, workers, loc,
                   hist, obs, rw, props>>
    /\ UNCHANGED <<graphics, connection, interval_list, display_thread>>

\* ---------------------------------------------------------------- specification

CallerStep(c) ==
    \/ property_changed(c)
    \/ update_data(c)
    \/ mark_dirty(c)
    \/ send_next_calculated_display_values(c)
    \/ send_next_start_thread(c)
    \/ update_calculated_display_values(c)
    \/ force_join(c)
    \/ force_copy(c)
    \/ force_calculate(c)
    \/ force_clear_pending(c)
    \/ force_fire(c)
    \/ get_calculated_display_values(c)
    \/ force_done(c)

OwnerStep ==
    \/ add_calculated_display_values_listener(Owner)
    \/ display_about_to_be_removed(Owner)
    \/ close(Owner)
    \/ close_read_thread(Owner)
    \/ close_join(Owner)
    \/ close_finish(Owner)

WorkerStep(s) ==
    \/ worker_begin(s)
    \/ worker_calculate(s)
    \/ worker_fire(s)
    \/ worker_end(s)
    \/ worker_start_thread(s)

Next ==
    \/ \E c \in Callers : CallerStep(c)
    \/ OwnerStep
    \/ \E s \in Slots : WorkerStep(s)
    \/ set_test_exception

Spec == Init /\ [][Next]_vars

\* The Display after its container has called about_to_be_removed(): close()
\* can complete.
InitRemoved ==
    /\ inputs = InitInputs
    /\ dirty = AllDirty
    /\ values = InitValues
    /\ listener_count = 0
    /\ thread = 0
    /\ pending = FALSE
    /\ thread_ok = TRUE
    /\ test_exception = FALSE
    /\ about_to_be_removed = TRUE
    /\ closed = FALSE
    /\ lockL = Free
    /\ lockTL = Free
    /\ workers = [s \in Slots |-> FreeWorker]
    /\ pc = [c \in Callers |-> "idle"]
    /\ loc = [c \in Callers |-> NoLoc]
    /\ hist = InitHist
    /\ obs = InitObs
    /\ rw = InitRw
    /\ props = InitProps
    /\ graphics = InitGraphics
    /\ connection = InitConnection
    /\ interval_list = InitIntervalList
    /\ display_thread = InitDisplayThread

NextRemoved ==
    \/ \E c \in Callers : CallerStep(c)
    \/ add_calculated_display_values_listener(Owner)
    \/ close(Owner)
    \/ close_read_thread(Owner)
    \/ close_join(Owner)
    \/ close_finish(Owner)
    \/ \E s \in Slots : WorkerStep(s)

SpecRemoved == InitRemoved /\ [][NextRemoved]_vars

\* The open Display with what its force-now calls observe recorded, and one
\* more call than MaxOps: mutators, subscriptions, force-now calls and workers.
InitObserved ==
    /\ inputs = InitInputs
    /\ dirty = AllDirty
    /\ values = InitValues
    /\ listener_count = 0
    /\ thread = 0
    /\ pending = FALSE
    /\ thread_ok = TRUE
    /\ test_exception = FALSE
    /\ about_to_be_removed = FALSE
    /\ closed = FALSE
    /\ lockL = Free
    /\ lockTL = Free
    /\ workers = [s \in Slots |-> FreeWorker]
    /\ pc = [c \in Callers |-> "idle"]
    /\ loc = [c \in Callers |-> NoLoc]
    /\ hist = [InitHist EXCEPT !.track = TRUE, !.budget = MaxOps + 1]
    /\ obs = InitObs
    /\ rw = InitRw
    /\ props = InitProps
    /\ graphics = InitGraphics
    /\ connection = InitConnection
    /\ interval_list = InitIntervalList
    /\ display_thread = InitDisplayThread

NextObserved ==
    \/ \E c \in Callers : CallerStep(c)
    \/ add_calculated_display_values_listener(Owner)
    \/ \E s \in Slots : WorkerStep(s)

SpecObserved == InitObserved /\ [][NextObserved]_vars

\* The open Display with what its listeners are sent recorded, and one more
\* call than MaxOps: mutators, subscriptions, force-now calls and workers.
InitDelivered ==
    /\ inputs = InitInputs
    /\ dirty = AllDirty
    /\ values = InitValues
    /\ listener_count = 0
    /\ thread = 0
    /\ pending = FALSE
    /\ thread_ok = TRUE
    /\ test_exception = FALSE
    /\ about_to_be_removed = FALSE
    /\ closed = FALSE
    /\ lockL = Free
    /\ lockTL = Free
    /\ workers = [s \in Slots |-> FreeWorker]
    /\ pc = [c \in Callers |-> "idle"]
    /\ loc = [c \in Callers |-> NoLoc]
    /\ hist = [InitHist EXCEPT !.budget = MaxOps + 1]
    /\ obs = [InitObs EXCEPT !.on = TRUE, !.seq = TRUE]
    /\ rw = InitRw
    /\ props = InitProps
    /\ graphics = InitGraphics
    /\ connection = InitConnection
    /\ interval_list = InitIntervalList
    /\ display_thread = InitDisplayThread

NextDelivered ==
    \/ \E c \in Callers : CallerStep(c)
    \/ add_calculated_display_values_listener(Owner)
    \/ \E s \in Slots : WorkerStep(s)

SpecDelivered == InitDelivered /\ [][NextDelivered]_vars

\* The Display with one more call than MaxOps, close() among the calls:
\* mutators, subscriptions, force-now calls, close() and workers.
InitClosing ==
    /\ inputs = InitInputs
    /\ dirty = AllDirty
    /\ values = InitValues
    /\ listener_count = 0
    /\ thread = 0
    /\ pending = FALSE
    /\ thread_ok = TRUE
    /\ test_exception = FALSE
    /\ about_to_be_removed = FALSE
    /\ closed = FALSE
    /\ lockL = Free
    /\ lockTL = Free
    /\ workers = [s \in Slots |-> FreeWorker]
    /\ pc = [c \in Callers |-> "idle"]
    /\ loc = [c \in Callers |-> NoLoc]
    /\ hist = [InitHist EXCEPT !.budget = MaxOps + 1]
    /\ obs = InitObs
    /\ rw = InitRw
    /\ props = InitProps
    /\ graphics = InitGraphics
    /\ connection = InitConnection
    /\ interval_list = InitIntervalList
    /\ display_thread = InitDisplayThread

NextClosing ==
    \/ \E c \in Callers : CallerStep(c)
    \/ add_calculated_display_values_listener(Owner)
    \/ close(Owner)
    \/ close_read_thread(Owner)
    \/ close_join(Owner)
    \/ close_finish(Owner)
    \/ \E s \in Slots : WorkerStep(s)

SpecClosing == InitClosing /\ [][NextClosing]_vars

\* The open Display with what its listeners are sent recorded: mutators,
\* subscriptions, force-now calls and workers.
InitSubscribed ==
    /\ inputs = InitInputs
    /\ dirty = AllDirty
    /\ values = InitValues
    /\ listener_count = 0
    /\ thread = 0
    /\ pending = FALSE
    /\ thread_ok = TRUE
    /\ test_exception = FALSE
    /\ about_to_be_removed = FALSE
    /\ closed = FALSE
    /\ lockL = Free
    /\ lockTL = Free
    /\ workers = [s \in Slots |-> FreeWorker]
    /\ pc = [c \in Callers |-> "idle"]
    /\ loc = [c \in Callers |-> NoLoc]
    /\ hist = InitHist
    /\ obs = [InitObs EXCEPT !.on = TRUE]
    /\ rw = InitRw
    /\ props = InitProps
    /\ graphics = InitGraphics
    /\ connection = InitConnection
    /\ interval_list = InitIntervalList
    /\ display_thread = InitDisplayThread

SpecSubscribed == InitSubscribed /\ [][NextDelivered]_vars

\* One thread mutates the Display and forces the calculation, its write-back
\* taken one assignment at a time; another thread reads the values.
NextSnapshot ==
    \/ property_changed(Owner)
    \/ update_data(Owner)
    \/ mark_dirty(Owner)
    \/ send_next_calculated_display_values(Owner)
    \/ update_calculated_display_values(Owner)
    \/ force_copy(Owner)
    \/ calculate_on_copy(Owner)
    \/ update_values_field(Owner)
    \/ force_clear_pending(Owner)
    \/ force_fire(Owner)
    \/ get_calculated_display_values(Owner)
    \/ force_done(Owner)
    \/ \E c \in Callers \ {Owner} :
         \/ values_begin(c)
         \/ values_read_field(c)
         \/ values_return(c)

SpecSnapshot == Init /\ [][NextSnapshot]_vars

\* One thread changes the inputs of a Display without listeners and forces
\* the calculation, three calls more than MaxOps; what follows a run that
\* raised is recorded.
InitFailure ==
    /\ inputs = InitInputs
    /\ dirty = AllDirty
    /\ values = InitValues
    /\ listener_count = 0
    /\ thread = 0
    /\ pending = FALSE
    /\ thread_ok = TRUE
    /\ test_exception = FALSE
    /\ about_to_be_removed = FALSE
    /\ closed = FALSE
    /\ lockL = Free
    /\ lockTL = Free
    /\ workers = [s \in Slots |-> FreeWorker]
    /\ pc = [c \in Callers |-> "idle"]
    /\ loc = [c \in Callers |-> NoLoc]
    /\ hist = [InitHist EXCEPT !.follow = TRUE, !.budget = MaxOps + 3]
    /\ obs = InitObs
    /\ rw = InitRw
    /\ props = InitProps
    /\ graphics = InitGraphics
    /\ connection = InitConnection
    /\ interval_list = InitIntervalList
    /\ display_thread = InitDisplayThread

NextFailure ==
    \/ property_changed(Owner)
    \/ update_data(Owner)
    \/ mark_dirty(Owner)
    \/ send_next_calculated_display_values(Owner)
    \/ update_calculated_display_values(Owner)
    \/ force_copy(Owner)
    \/ force_calculate(Owner)
    \/ force_clear_pending(Owner)
    \/ force_fire(Owner)
    \/ get_calculated_display_values(Owner)
    \/ force_done(Owner)

SpecFailure == InitFailure /\ [][NextFailure]_vars

\* ---------------------------------------------------------------- slice properties

\* the datasets: one dimension of any size up to MaxDepth, or a sequence and a
\* collection of up to three dimensions, each of size Frames, of data of that
\* size
Shape(seq, n, depth) ==
    [is_sequence |-> seq, collection_dimension_count |-> n,
     dimensional_shape |-> (IF seq THEN <<Frames>> ELSE << >>) \o [i \in 1 .. n |-> Frames]
                           \o <<depth>>]

Shapes ==
    {Shape(FALSE, 0, depth) : depth \in 1 .. MaxDepth}
        \cup {Shape(seq, n, Frames) : seq \in BOOLEAN, n \in 0 .. 3}

\* the integers a property is set to, and the collection indexes
Values == (0 - 1) .. (MaxDepth + 1)

CollectionValues == {<<a, a, a>> : a \in {0 - 1, 0, Frames}}

py_max(a, b) == IF a >= b THEN a ELSE b

py_min(a, b) == IF a <= b THEN a ELSE b

\* int(n * 0.5): the half of n, rounded towards zero
int_half(n) == IF n >= 0 THEN n \div 2 ELSE 0 - ((0 - n) \div 2)

\* self.__data_and_metadata and self.__data_and_metadata.dimensional_shape is not None
has_shape(p) == p.shape.dimensional_shape # NoneT

\* dimensional_shape[-1]
depth_of(p) == p.shape.dimensional_shape[Len(p.shape.dimensional_shape)]

validate_sequence_index(p, value) ==
    IF ~p.is_reading /\ has_shape(p)
    THEN IF p.shape.is_sequence
         THEN py_max(py_min(value, p.shape.dimensional_shape[1] - 1), 0)
         ELSE 0
    ELSE 0

validate_collection_index(p, value) ==
    IF ~p.is_reading /\ has_shape(p)
    THEN LET dimensional_shape == p.shape.dimensional_shape
             collection_base_index == IF p.shape.is_sequence THEN 1 ELSE 0
             collection_dimension_count == p.shape.collection_dimension_count
             i(k) == IF collection_dimension_count > k - 1
                     THEN py_max(py_min(value[k], dimensional_shape[collection_base_index + k] - 1), 0)
                     ELSE 0
         IN  <<i(1), i(2), i(3)>>
    ELSE <<0, 0, 0>>

validate_slice_center_for_width(p, value, slice_width) ==
    IF has_shape(p)
    THEN LET depth == depth_of(p)
             mn == py_max(int_half(slice_width), 0)
             mx == py_min(int_half(2 * depth - slice_width), depth - 1)
         IN  py_min(py_max(value, mn), mx)
    ELSE IF p.is_reading THEN value ELSE 0

validate_slice_center(p, value) == validate_slice_center_for_width(p, value, p.slice_width)

validate_slice_width(p, value) ==
    IF has_shape(p)
    THEN LET depth == depth_of(p)
             slice_center == p.slice_center
             mn == 1
             mx == py_max(py_min(slice_center, depth - slice_center) * 2, 1)
         IN  py_min(py_max(value, mn), mx)
    ELSE IF p.is_reading THEN value ELSE 1

validate(p, name, value) ==
    CASE name = "sequence_index" -> validate_sequence_index(p, value)
      [] name = "collection_index" -> validate_collection_index(p, value)
      [] name = "slice_center" -> validate_slice_center(p, value)
      [] name = "slice_width" -> validate_slice_width(p, value)

\* the assignment of a property that has a validator: the validated value is
\* stored
set_property(p, name, value) == [p EXCEPT ![name] = validate(p, name, value)]

\* a validate_slice_indexes that leaves the properties as they are
validate_slice_indexes_skipped(p) == p

validate_slice_indexes(p) ==
    LET p1 == IF validate_sequence_index(p, p.sequence_index) # p.sequence_index
              THEN set_property(p, "sequence_index", validate_sequence_index(p, p.sequence_index))
              ELSE p
        p2 == IF validate_collection_index(p1, p1.collection_index) # p1.collection_index
              THEN set_property(p1, "collection_index",
                                validate_collection_index(p1, p1.collection_index))
              ELSE p1
        old_slice_width == p2.slice_width
        a == set_property(p2, "slice_width", 1)
        b == set_property(a, "slice_center", a.slice_center)
        c == set_property(b, "slice_width", old_slice_width)
    IN  IF validate_slice_center_for_width(p2, p2.slice_center, 1) # p2.slice_center
        THEN c
        ELSE p2

\* what a call on a Display without listeners changes besides the properties:
\* the stages are marked dirty, and the scheduler starts nothing
slice_step(p) ==
    /\ pc[Owner] = "idle"
    /\ listener_count = 0
    /\ props' = p
    /\ dirty' = AllDirty
    /\ UNCHANGED <<graphics, connection, interval_list, display_thread>>
    /\ UNCHANGED <<values, listener_count, thread, pending, thread_ok, test_exception,
                   about_to_be_removed, closed, lockL, lockTL, workers, pc, loc, hist, obs, rw>>

\* display.<name> = value, for one of the four properties
set_slice_property(name, value) ==
    /\ slice_step([set_property(props, name, value) EXCEPT
                       !.call = [name |-> name, value |-> value]])
    /\ UNCHANGED inputs

set_sequence_index == \E v \in Values : set_slice_property("sequence_index", v)

set_collection_index == \E v \in CollectionValues : set_slice_property("collection_index", v)

set_slice_center == \E v \in Values : set_slice_property("slice_center", v)

set_slice_width == \E v \in Values : set_slice_property("slice_width", v)

\* Display.update_data(data_and_metadata) with None or with a dataset of shape
\* sh (dataset 1: the validators read nothing but the shape); the call is
\* recorded with the trailing dimension (0: no dataset) and the slice_center
\* it found
update_data_shape ==
    \E sh \in Shapes \cup {NoShape} :
        LET d == IF sh = NoShape THEN 0 ELSE 1
            old_data_shape == props.shape.dimensional_shape
            new_data_shape == sh.dimensional_shape
            found == <<IF has_shape(props) THEN depth_of(props) ELSE 0, props.slice_center>>
            p == [props EXCEPT !.shape = sh, !.call = [name |-> "update_data", value |-> found]]
        IN  /\ slice_step(IF old_data_shape # new_data_shape THEN validate_slice_indexes(p) ELSE p)
            /\ inputs' = [inputs EXCEPT !.data_and_metadata = d]

\* the properties are about to be read from storage
begin_reading ==
    /\ ~props.is_reading
    /\ props' = [props EXCEPT !.is_reading = TRUE, !.call = NoCall]
    /\ pc[Owner] = "idle"
    /\ UNCHANGED <<graphics, connection, interval_list, display_thread>>
    /\ UNCHANGED <<inputs, dirty, values, listener_count, thread, pending, thread_ok,
                   test_exception, about_to_be_removed, closed, lockL, lockTL, workers, pc, loc,
                   hist, obs, rw>>

\* the properties have been read from storage
finish_reading ==
    /\ props.is_reading
    /\ props' = [props EXCEPT !.is_reading = FALSE, !.call = NoCall]
    /\ pc[Owner] = "idle"
    /\ UNCHANGED <<graphics, connection, interval_list, display_thread>>
    /\ UNCHANGED <<inputs, dirty, values, listener_count, thread, pending, thread_ok,
                   test_exception, about_to_be_removed, closed, lockL, lockTL, workers, pc, loc,
                   hist, obs, rw>>

\* One thread sets the slice properties of a Display without listeners, hands
\* it datasets and reads its properties from storage.
NextSlices ==
    \/ set_sequence_index
    \/ set_collection_index
    \/ set_slice_center
    \/ set_slice_width
    \/ update_data_shape
    \/ begin_reading
    \/ finish_reading

SpecSlices == Init /\ [][NextSlices]_vars

\* ---------------------------------------------------------------- property changes, step by step

\* what display_limits is set to: None or an empty tuple, tuples of one and of
\* two elements, in either order, with None on either side
DisplayLimitInputs ==
    {NoneT, <<0>>, <<NoneV>>, <<0, 50>>, <<50, 0>>, <<0, NoneV>>, <<NoneV, 50>>, <<NoneV, NoneV>>}

validate_display_limits(value) ==
    IF value # NoneT
    THEN IF Len(value) = 1
         THEN IF value[1] # NoneV THEN <<value[1], NoneV>> ELSE NoneT
         ELSE IF value[1] # NoneV /\ value[2] # NoneV
              THEN <<py_min(value[1], value[2]), py_max(value[1], value[2])>>
              ELSE IF value[1] = NoneV /\ value[2] = NoneV
                   THEN NoneT
                   ELSE <<value[1], value[2]>>
    ELSE value

\* the values a property can be set to
PropertyInputs(name) ==
    CASE name = "display_limits" -> DisplayLimitInputs
      [] name = "complex_display_type" -> ComplexDisplayTypes
      [] name = "color_map_data" -> ColorMaps
      [] name = "collection_index" -> CollectionValues
      [] OTHER -> Values

\* the value stored for a property that is set to value
validated(name, value) ==
    CASE name = "display_limits" -> validate_display_limits(value)
      [] name \in SliceKinds -> validate(props, name, value)
      [] OTHER -> value

\* the value of a property as it stands
stored(name) == IF name \in SliceKinds THEN props[name] ELSE inputs[name]

\* display.<name> = value, up to the call of the changed method: the validated
\* value is stored; nothing more happens when it is the value already there
property_assign(c) ==
    /\ pc[c] = "idle"
    /\ hist.nops < hist.budget
    /\ \E name \in InputKinds \cup SliceKinds : \E value \in PropertyInputs(name) :
         LET v == validated(name, value)
         IN  /\ v # stored(name)
             /\ props' = [(IF name \in SliceKinds THEN [props EXCEPT ![name] = v] ELSE props)
                             EXCEPT !.call = [name |-> name, value |-> v], !.announced = FALSE]
             /\ loc' = [loc EXCEPT ![c].kind = name, ![c].began_open = ~closed]
    /\ pc' = [pc EXCEPT ![c] = "p_fire"]
    /\ hist' = [hist EXCEPT !.nops = @ + 1]
    /\ UNCHANGED <<graphics, connection, interval_list, display_thread>>
    /\ UNCHANGED <<inputs, dirty, values, listener_count, thread, pending, thread_ok,
                   test_exception, about_to_be_removed, closed, lockL, lockTL, workers, obs, rw>>

\* a __property_changed that does not fire the event
display_data_will_change_event_silent == FALSE

\* self.display_data_will_change_event.fire()
display_data_will_change_event_fire == TRUE

\* Display.__property_changed up to the event
display_data_will_change(c) ==
    /\ pc[c] = "p_fire"
    /\ pc' = [pc EXCEPT ![c] = "p_set"]
    /\ props' = [props EXCEPT !.announced = display_data_will_change_event_fire]
    /\ UNCHANGED <<graphics, connection, interval_list, display_thread>>
    /\ UNCHANGED <<inputs, dirty, values, listener_count, thread, pending, thread_ok,
                   test_exception, about_to_be_removed, closed, lockL, lockTL, workers, loc, hist,
                   obs, rw>>

\* _set_<name>(value): the calculator's input is written (the sequence and
\* slice properties have no copy of their own here)
calculator_set(c) ==
    /\ pc[c] = "p_set"
    /\ inputs' = IF loc[c].kind \in InputKinds
                 THEN [inputs EXCEPT ![loc[c].kind] = props.call.value]
                 ELSE inputs
    /\ pc' = [pc EXCEPT ![c] = "m_dirty"]
    /\ loc' = note_mutation(loc, c)
    /\ hist' = forget_prev(hist)
    /\ UNCHANGED <<dirty, values, listener_count, thread, pending, thread_ok, test_exception,
                   about_to_be_removed, closed, lockL, lockTL, workers, obs, rw, props>>
    /\ UNCHANGED <<graphics, connection, interval_list, display_thread>>

\* Display.update_data with another dataset of the shape the Display has, up to
\* the write of the calculator's input
update_data_same_shape(c) ==
    \E d \in 1 .. MaxData : set_input(c, "data_and_metadata", d)

\* A Display that has been handed dataset 1, a sequence of a collection of
\* data of depth MaxDepth; one thread sets its properties, replaces the
\* dataset, subscribes listeners and forces the calculation, beside the workers.
InitSetters ==
    /\ inputs = [InitInputs EXCEPT !.data_and_metadata = 1]
    /\ dirty = AllDirty
    /\ values = InitValues
    /\ listener_count = 0
    /\ thread = 0
    /\ pending = FALSE
    /\ thread_ok = TRUE
    /\ test_exception = FALSE
    /\ about_to_be_removed = FALSE
    /\ closed = FALSE
    /\ lockL = Free
    /\ lockTL = Free
    /\ workers = [s \in Slots |-> FreeWorker]
    /\ pc = [c \in Callers |-> "idle"]
    /\ loc = [c \in Callers |-> NoLoc]
    /\ hist = InitHist
    /\ obs = InitObs
    /\ rw = InitRw
    /\ props = [InitProps EXCEPT !.shape = Shape(TRUE, 1, MaxDepth)]
    /\ graphics = InitGraphics
    /\ connection = InitConnection
    /\ interval_list = InitIntervalList
    /\ display_thread = InitDisplayThread

NextSetters ==
    \/ property_assign(Owner)
    \/ display_data_will_change(Owner)
    \/ calculator_set(Owner)
    \/ update_data_same_shape(Owner)
    \/ mark_dirty(Owner)
    \/ add_calculated_display_values_listener(Owner)
    \/ send_next_calculated_display_values(Owner)
    \/ send_next_start_thread(Owner)
    \/ update_calculated_display_values(Owner)
    \/ force_join(Owner)
    \/ force_copy(Owner)
    \/ force_calculate(Owner)
    \/ force_clear_pending(Owner)
    \/ force_fire(Owner)
    \/ get_calculated_display_values(Owner)
    \/ force_done(Owner)
    \/ \E s \in Slots : WorkerStep(s)

SpecSetters == InitSetters /\ [][NextSetters]_vars

\* ---------------------------------------------------------------- property connection

\* the values the bound properties are set to: indexes up to one past the last
\* frame, and None
BoundValues == (0 .. Frames) \cup {NoneV}

\* the target with a validator is a Display of a sequence of Frames frames,
\* its bound property sequence_index
TargetProps == [InitProps EXCEPT !.shape = Shape(TRUE, 0, 1)]

\* int(value) raises for None
int_raises(value) == value = NoneV

\* the setter of the target property raises for the value
target_setter_raises(cn, value) == cn.target_validates /\ int_raises(value)

\* the value the setter of the target property stores
target_stored(cn, value) ==
    IF cn.target_validates THEN validate_sequence_index(TargetProps, value) ELSE value

RECURSIVE set_target_from_source(_, _), set_source_from_target(_, _)

\* PropertyConnection.__set_target_from_source(value), called by the binding
\* when the source property changes: the target property is set, and its
\* change comes back through the listener of the target as a call of
\* __set_source_from_target; a setter that raises leaves __suppress as it is
set_target_from_source(cn, value) ==
    IF ~cn.suppress
    THEN LET up == [cn EXCEPT !.suppress = TRUE]
         IN  IF target_setter_raises(up, value)
             THEN [up EXCEPT !.raised = "TypeError"]
             ELSE LET set == [up EXCEPT !.target_value = target_stored(up, value)]
                      back == IF set.target_listener
                              THEN set_source_from_target(set, set.target_value)
                              ELSE set
                  IN  [back EXCEPT !.suppress = FALSE]
    ELSE cn

\* PropertyConnection.__set_source_from_target(value), called by the listener
\* of the target's property_changed_event: the binding sets the source
\* property, and its change comes back through the binding as a call of
\* __set_target_from_source
set_source_from_target(cn, value) ==
    IF ~cn.suppress
    THEN LET up == [cn EXCEPT !.suppress = TRUE]
             set == IF up.binding
                    THEN set_target_from_source([up EXCEPT !.source_value = value], value)
                    ELSE up
         IN  [set EXCEPT !.suppress = FALSE]
    ELSE cn

connection_step(cn) ==
    /\ connection' = cn
    /\ UNCHANGED <<inputs, dirty, values, listener_count, thread, pending, thread_ok,
                   test_exception, about_to_be_removed, closed, lockL, lockTL, workers, pc, loc,
                   hist, obs, rw, props>>
    /\ UNCHANGED <<graphics, interval_list, display_thread>>

\* source.<source_property> = value: the property is set and the binding, if
\* there is one, calls __set_target_from_source
set_source_property ==
    \E value \in BoundValues :
        LET set == [connection EXCEPT !.source_value = value, !.call = "source", !.raised = ""]
        IN  connection_step(IF set.binding THEN set_target_from_source(set, value) ELSE set)

\* target.<target_property> = value: the property is set, unless its setter
\* raises, and the listener, if there is one, calls __set_source_from_target
set_target_property ==
    \E value \in BoundValues :
        LET called == [connection EXCEPT !.call = "target", !.raised = ""]
            set == [called EXCEPT !.target_value = target_stored(called, value)]
        IN  connection_step(
                IF target_setter_raises(called, value)
                THEN [called EXCEPT !.raised = "TypeError"]
                ELSE IF set.target_listener
                     THEN set_source_from_target(set, set.target_value)
                     ELSE set)

\* history: a lifecycle call of the connection has ended
note_connection_call(cn, name, exception) ==
    [cn EXCEPT !.call = name, !.raised = exception,
               !.completed = IF exception = "" THEN [@ EXCEPT ![name] = @ + 1] ELSE @]

\* Connection.about_to_be_removed
connection_about_to_be_removed ==
    connection_step(
        IF connection.about_to_be_removed
        THEN note_connection_call(connection, "about_to_be_removed", "AssertionError")
        ELSE note_connection_call([connection EXCEPT !.about_to_be_removed = TRUE],
                                  "about_to_be_removed", ""))

\* PropertyConnection.close and Connection.close: the binding and the listener
\* are closed, then the proxies (the call raises when they are None already),
\* then the two assertions, then _closed
connection_close ==
    LET released == [connection EXCEPT !.binding = FALSE, !.target_listener = FALSE]
        apart == [released EXCEPT !.proxies = FALSE]
    IN  connection_step(
            IF ~released.proxies
            THEN note_connection_call(released, "close", "AttributeError")
            ELSE IF apart.about_to_be_removed /\ ~apart.closed
                 THEN note_connection_call([apart EXCEPT !.closed = TRUE], "close", "")
                 ELSE note_connection_call(apart, "close", "AssertionError"))

\* A PropertyConnection constructed with its source and its target, the
\* target property with or without a validator: the two properties are set,
\* and the connection is removed and closed, in any order.
InitConnectionSpec ==
    /\ inputs = InitInputs
    /\ dirty = AllDirty
    /\ values = InitValues
    /\ listener_count = 0
    /\ thread = 0
    /\ pending = FALSE
    /\ thread_ok = TRUE
    /\ test_exception = FALSE
    /\ about_to_be_removed = FALSE
    /\ closed = FALSE
    /\ lockL = Free
    /\ lockTL = Free
    /\ workers = [s \in Slots |-> FreeWorker]
    /\ pc = [c \in Callers |-> "idle"]
    /\ loc = [c \in Callers |-> NoLoc]
    /\ hist = InitHist
    /\ obs = InitObs
    /\ rw = InitRw
    /\ props = InitProps
    /\ graphics = InitGraphics
    /\ \E validates \in BOOLEAN : connection = [InitConnection EXCEPT !.target_validates = validates]
    /\ interval_list = InitIntervalList
    /\ display_thread = InitDisplayThread

NextConnection ==
    \/ set_source_property
    \/ set_target_property
    \/ connection_about_to_be_removed
    \/ connection_close

SpecConnection == InitConnectionSpec /\ [][NextConnection]_vars

\* ---------------------------------------------------------------- interval list connection

\* the intervals a graphic is given
Intervals == {0, 1}

\* isinstance(region, Graphics.IntervalGraphic): the graphics with odd numbers
IsIntervalGraphic(g) == g % 2 = 1

\* the intervals of the regions, in their order
descriptors_of(il, regions) == [i \in 1 .. Len(regions) |-> il.interval[regions[i]]]

\* a reattach that does not detach first
reattach_without_detach(il) ==
    LET regions == IF il.source THEN SelectSeq(il.items, IsIntervalGraphic) ELSE << >>
    IN  [il EXCEPT !.interval_mutated_listeners = @ \o regions,
                   !.interval_descriptors = IF il.target THEN descriptors_of(il, regions) ELSE @]

\* reattach(): the listeners are closed and dropped; for each IntervalGraphic
\* of the source, in graphics order, a descriptor is made and a listener of
\* its property_changed_event is kept; the target is given the descriptors
reattach(il) ==
    LET regions == IF il.source THEN SelectSeq(il.items, IsIntervalGraphic) ELSE << >>
    IN  [il EXCEPT !.interval_mutated_listeners = regions,
                   !.interval_descriptors = IF il.target THEN descriptors_of(il, regions) ELSE @]

\* item_inserted / item_removed, the listeners source_registered has put on
\* the source's item_inserted_event and item_removed_event
graphics_changed(il) == IF il.source /\ il.target THEN reattach(il) ELSE il

interval_list_step(name, il) ==
    /\ interval_list' = [il EXCEPT !.call = name]
    /\ UNCHANGED <<inputs, dirty, values, listener_count, thread, pending, thread_ok,
                   test_exception, about_to_be_removed, closed, lockL, lockTL, workers, pc, loc,
                   hist, obs, rw, props>>
    /\ UNCHANGED <<graphics, connection, display_thread>>

\* the source proxy registers the display: source_registered
source_registered ==
    /\ ~interval_list.source
    /\ interval_list_step("source_registered", reattach([interval_list EXCEPT !.source = TRUE]))

\* the target proxy registers the line profile: target_registered
target_registered ==
    /\ ~interval_list.target
    /\ interval_list_step("target_registered", reattach([interval_list EXCEPT !.target = TRUE]))

\* a graphic is inserted into the display: item_inserted_event fires
display_insert_graphic ==
    \E graphic \in Graphics : \E before_index \in 0 .. Len(interval_list.items) :
        /\ \A i \in 1 .. Len(interval_list.items) : interval_list.items[i] # graphic
        /\ interval_list_step("insert_graphic",
               graphics_changed([interval_list EXCEPT
                   !.items = list_insert(@, before_index, graphic)]))

\* a graphic is removed from the display: item_removed_event fires
display_remove_graphic ==
    \E index \in 0 .. (Len(interval_list.items) - 1) :
        interval_list_step("remove_graphic",
            graphics_changed([interval_list EXCEPT !.items = list_remove(@, index)]))

\* region.interval = value on an IntervalGraphic, in the display or not: its
\* property_changed_event fires, and each listener the connection has on it
\* calls reattach()
set_interval ==
    \E graphic \in {g \in Graphics : IsIntervalGraphic(g)} : \E value \in Intervals :
        LET set == [interval_list EXCEPT !.interval[graphic] = value]
            listened == \E i \in 1 .. Len(set.interval_mutated_listeners) :
                            set.interval_mutated_listeners[i] = graphic
        IN  interval_list_step("interval", IF listened THEN reattach(set) ELSE set)

InitIntervalListSpec ==
    /\ inputs = InitInputs
    /\ dirty = AllDirty
    /\ values = InitValues
    /\ listener_count = 0
    /\ thread = 0
    /\ pending = FALSE
    /\ thread_ok = TRUE
    /\ test_exception = FALSE
    /\ about_to_be_removed = FALSE
    /\ closed = FALSE
    /\ lockL = Free
    /\ lockTL = Free
    /\ workers = [s \in Slots |-> FreeWorker]
    /\ pc = [c \in Callers |-> "idle"]
    /\ loc = [c \in Callers |-> NoLoc]
    /\ hist = InitHist
    /\ obs = InitObs
    /\ rw = InitRw
    /\ props = InitProps
    /\ graphics = InitGraphics
    /\ connection = InitConnection
    /\ interval_list = InitIntervalList
    /\ display_thread = InitDisplayThread

NextIntervalList ==
    \/ source_registered
    \/ target_registered
    \/ display_insert_graphic
    \/ display_remove_graphic
    \/ set_interval

\* An IntervalListConnection, its display and its line profile: the display
\* and the line profile are registered, graphics are inserted into and removed
\* from the display and the intervals of the interval graphics are set, in any
\* order.
SpecIntervalList == InitIntervalListSpec /\ [][NextIntervalList]_vars

\* ---------------------------------------------------------------- display thread of an image panel

\* data_item.add_ref() / data_item.remove_ref()
add_ref(refs, data) == IF data.item = 0 THEN refs ELSE [refs EXCEPT ![data.item] = @ + 1]
remove_ref(refs, data) == IF data.item = 0 THEN refs ELSE [refs EXCEPT ![data.item] = @ - 1]

\* a handle_data that keeps the data item it has
handle_data_keep_first(dt, item) ==
    LET data == [item |-> item, seq |-> dt.handed + 1]
    IN  IF dt.data_item # NoData
        THEN [dt EXCEPT !.handed = @ + 1]
        ELSE [dt EXCEPT !.data_item = data, !.refs = add_ref(@, data), !.handed = @ + 1]

\* DisplayThread.handle_data: the data item held is released and replaced
handle_data(dt, item) ==
    LET data == [item |-> item, seq |-> dt.handed + 1]
    IN  [dt EXCEPT !.data_item = data,
                   !.refs = add_ref(remove_ref(@, dt.data_item), data),
                   !.handed = @ + 1]

\* DisplayThread.grab_data: the data item held is taken
grab_data(dt) == [dt EXCEPT !.data = dt.data_item, !.data_item = NoData]

\* if data is not None: self.release_data(data)
release_data(dt) == [dt EXCEPT !.refs = remove_ref(@, dt.data), !.data = NoData]

display_thread_step(dt) ==
    /\ display_thread' = dt
    /\ UNCHANGED <<inputs, dirty, values, listener_count, thread, pending, thread_ok,
                   test_exception, about_to_be_removed, closed, lockL, lockTL, workers, pc, loc,
                   hist, obs, rw, props>>
    /\ UNCHANGED <<graphics, connection, interval_list>>

\* the update_data calls begun and not finished
UpdatesBegun ==
    display_thread.handed
    + Cardinality({u \in Updaters : display_thread.caller[u] \in {"checked", "calling"}})

\* ImagePanel.display_changed up to its tests of closed and of __display_thread
display_changed(u) ==
    /\ display_thread.caller[u] = "idle"
    /\ UpdatesBegun < MaxUpdates
    /\ ~display_thread.closed
    /\ display_thread.display_thread
    /\ display_thread_step([display_thread EXCEPT !.caller[u] = "checked"])

\* self.__display_thread.update_data: the attribute is read again
display_changed_call(u) ==
    /\ display_thread.caller[u] = "checked"
    /\ display_thread_step(
           IF display_thread.display_thread
           THEN [display_thread EXCEPT !.caller[u] = "calling"]
           ELSE [display_thread EXCEPT !.caller[u] = "idle", !.raised = "AttributeError"])

\* ProcessingThread.update_data: the lock is taken and handle_data is called
thread_update_data(u) ==
    /\ display_thread.caller[u] = "calling"
    /\ display_thread.thread_lock = 0
    /\ \E item \in DataItems :
           display_thread_step([handle_data(display_thread, item) EXCEPT
               !.thread_lock = u, !.caller[u] = "locked"])

\* ProcessingThread.update_data: thread_event is set and the lock is released
thread_update_data_set(u) ==
    /\ display_thread.caller[u] = "locked"
    /\ display_thread_step([display_thread EXCEPT
           !.thread_event = TRUE, !.thread_lock = 0, !.caller[u] = "idle"])

\* __process: self.__thread_event.wait()
process_wait ==
    /\ display_thread.pc = "wait"
    /\ display_thread.thread_event
    /\ display_thread_step([display_thread EXCEPT !.pc = "grab"])

\* __process: with the lock, thread_event is cleared and the data is grabbed
process_grab ==
    /\ display_thread.pc = "grab"
    /\ display_thread.thread_lock = 0
    /\ display_thread_step([grab_data(display_thread) EXCEPT
           !.thread_event = FALSE, !.pc = "break"])

\* __process: the first test of thread_break
process_break ==
    /\ display_thread.pc = "break"
    /\ display_thread_step(
           IF display_thread.thread_break
           THEN [release_data(display_thread) EXCEPT !.pc = "ending"]
           ELSE [display_thread EXCEPT !.pc = "interval"])

\* __process: no minimum interval is waited for; the second test of thread_break
process_interval ==
    /\ display_thread.pc = "interval"
    /\ display_thread_step(
           IF display_thread.thread_break
           THEN [release_data(display_thread) EXCEPT !.pc = "ending"]
           ELSE [display_thread EXCEPT !.pc = "process"])

\* __process: process_data(data), which repaints or raises, and in either
\* case release_data(data)
process_data ==
    /\ display_thread.pc = "process"
    /\ display_thread_step([release_data(display_thread) EXCEPT
           !.invoked = @ + 1, !.processed = display_thread.data.seq, !.pc = "wait"])

\* __process: self.__thread_ended_event.set()
process_ended ==
    /\ display_thread.pc = "ending"
    /\ display_thread_step([display_thread EXCEPT !.thread_ended_event = TRUE, !.pc = "ended"])

\* ImagePanel.close: self.closed = True
image_panel_close ==
    /\ display_thread.closing = "idle"
    /\ display_thread_step([display_thread EXCEPT !.closed = TRUE, !.closing = "close"])

\* ProcessingThread.close: the lock is taken and thread_break is set
thread_close ==
    /\ display_thread.closing = "close"
    /\ display_thread.thread_lock = 0
    /\ display_thread_step([display_thread EXCEPT
           !.thread_break = TRUE, !.thread_lock = Closer, !.closing = "locked"])

\* ProcessingThread.close: thread_event is set and the lock is released
thread_close_set ==
    /\ display_thread.closing = "locked"
    /\ display_thread_step([display_thread EXCEPT
           !.thread_event = TRUE, !.thread_lock = 0, !.closing = "waiting"])

\* ProcessingThread.close: self.__thread_ended_event.wait()
thread_close_wait ==
    /\ display_thread.closing = "waiting"
    /\ display_thread.thread_ended_event
    /\ display_thread_step([display_thread EXCEPT !.closing = "returned"])

\* ImagePanel.close: self.__display_thread = None
image_panel_close_finish ==
    /\ display_thread.closing = "returned"
    /\ display_thread_step([display_thread EXCEPT
           !.display_thread = FALSE, !.closing = "done"])

\* the steps of the processing thread
Process ==
    \/ process_wait
    \/ process_grab
    \/ process_break
    \/ process_interval
    \/ process_data
    \/ process_ended

\* the steps of a begun update_data call and of a begun close
Update == \E u \in Updaters : display_changed_call(u) \/ thread_update_data(u) \/ thread_update_data_set(u)
Close == thread_close \/ thread_close_set \/ thread_close_wait \/ image_panel_close_finish

NextDisplayThread ==
    \/ \E u \in Updaters : display_changed(u)
    \/ \E u \in Updaters : display_changed_call(u)
    \/ \E u \in Updaters : thread_update_data(u)
    \/ \E u \in Updaters : thread_update_data_set(u)
    \/ process_wait
    \/ process_grab
    \/ process_break
    \/ process_interval
    \/ process_data
    \/ process_ended
    \/ image_panel_close
    \/ thread_close
    \/ thread_close_set
    \/ thread_close_wait
    \/ image_panel_close_finish

\* An image panel and its display thread: display_changed is called from two
\* threads and ImagePanel.close from a third, the processing thread runs.
SpecDisplayThread == InitIntervalListSpec /\ [][NextDisplayThread]_vars

\* The same, where every thread that can take a step takes one: the
\* processing thread, a begun update_data and a begun close run on.
SpecDisplayThreadFair ==
    /\ InitIntervalListSpec
    /\ [][NextDisplayThread]_vars
    /\ WF_vars(Process)
    /\ WF_vars(Update)
    /\ WF_vars(Close)

\* ---------------------------------------------------------------- graphics and lifecycle of a Display

\* A Display without listeners of its calculated display values: the thread
\* that owns it inserts, removes and selects graphics and calls
\* about_to_be_removed() and close(), in any order.
InitGraphicsSpec ==
    /\ inputs = InitInputs
    /\ dirty = AllDirty
    /\ values = InitValues
    /\ listener_count = 0
    /\ thread = 0
    /\ pending = FALSE
    /\ thread_ok = TRUE
    /\ test_exception = FALSE
    /\ about_to_be_removed = FALSE
    /\ closed = FALSE
    /\ lockL = Free
    /\ lockTL = Free
    /\ workers = [s \in Slots |-> FreeWorker]
    /\ pc = [c \in Callers |-> "idle"]
    /\ loc = [c \in Callers |-> NoLoc]
    /\ hist = InitHist
    /\ obs = InitObs
    /\ rw = InitRw
    /\ props = InitProps
    /\ graphics = [InitGraphics EXCEPT !.track = TRUE]
    /\ connection = InitConnection
    /\ interval_list = InitIntervalList
    /\ display_thread = InitDisplayThread

NextGraphics ==
    \/ insert_graphic
    \/ remove_graphic
    \/ selection_set
    \/ selection_add
    \/ selection_toggle
    \/ selection_remove
    \/ selection_clear
    \/ display_about_to_be_removed(Owner)
    \/ display_about_to_be_removed_again(Owner)
    \/ close(Owner)
    \/ close_finish(Owner)

SpecGraphics == InitGraphicsSpec /\ [][NextGraphics]_vars

\* A Display and a PropertyConnection: graphics are inserted into the
\* Display, and about_to_be_removed() and close() are called on both objects,
\* any number of times in any order.
NextLifecycle ==
    \/ insert_graphic
    \/ display_about_to_be_removed(Owner)
    \/ display_about_to_be_removed_again(Owner)
    \/ close(Owner)
    \/ close_finish(Owner)
    \/ connection_about_to_be_removed
    \/ connection_close

SpecLifecycle == InitGraphicsSpec /\ [][NextLifecycle]_vars

\* ---------------------------------------------------------------- claims

Computing == {"w_begin", "w_calc", "w_fire"}
Live == Computing \cup {"w_end", "w_spawn"}

\* C1: at most one execution of the pipeline is in progress at any time,
\* counting the workers and the inline computations of force-now calls.
C1_OnePipelineAtATime ==
    Cardinality({s \in Slots : workers[s].pc = "w_calc"})
        + Cardinality({c \in Callers : pc[c] = "f_calc"}) <= 1

\* C2: at most one worker thread is between its start and the end of its
\* computation; no invalidation and no finishing worker starts a second one.
C2_OneWorkerAtATime ==
    Cardinality({s \in Slots : workers[s].pc \in Computing}) <= 1

\* an invalidation arrived while a worker computes: the pending flag is set and
\* the worker is still the only one
C2_Witness ==
    \E s \in Slots : workers[s].pc \in Computing /\ workers[s].invalidated /\ pending

\* C3: the invalidations that arrive while a worker runs on an open Display
\* are followed by one more run: until the worker's end-of-run bookkeeping the
\* pending flag they set stays set (the bookkeeping then starts the successor,
\* which copies the inputs as they are at its start).
C3_Coalescing ==
    \A s \in Slots :
        (workers[s].pc \in Computing \cup {"w_end"} /\ workers[s].invalidated /\ thread_ok)
            => pending

\* the values the pipeline gives for the inputs as they are now
IsFresh(v) ==
    \E r \in calculated([inputs |-> inputs, dirty |-> AllDirty, values |-> InitValues]) :
        ~r.raised /\ r.values = v

\* the pipeline does not raise for the inputs as they are now
Calculable ==
    \E r \in calculated([inputs |-> inputs, dirty |-> AllDirty, values |-> InitValues]) : ~r.raised

\* no call and no thread is in progress
Quiescent ==
    /\ \A c \in Callers : pc[c] \in {"idle", "f_done"}
    /\ \A s \in Slots : workers[s].pc \notin Live

\* C4: no request is lost: on an open Display with a listener, with no
\* exception of the pipeline, once the calls and the threads have ended the
\* stored values are those the pipeline gives for the inputs as they are.
C4_NoRequestLost ==
    (Quiescent /\ hist.track /\ thread_ok /\ listener_count > 0 /\ hist.heard /\ ~hist.raised
        /\ Calculable)
        => IsFresh(values)

\* C5: once a close() that was called while a worker was active has returned,
\* no call that began on the open Display starts a worker thread.
C5_ShutdownSafety ==
    [][(closed /\ hist.joined) => \A c \in Callers :
            (pc[c] \in {"s_send", "s_spawn"} /\ loc[c].began_open /\ pc'[c] = "idle")
                => thread' = thread]_vars

\* C6: close() and the worker it joins never wait for each other: close()
\* holding the thread lock in the join, the worker holding the values lock and
\* waiting for the thread lock.
C6_CloseReturns ==
    ~ \E s \in Slots :
        /\ pc[Owner] = "c_wait"
        /\ loc[Owner].t = s
        /\ lockTL = CallerId(Owner)
        /\ workers[s].pc = "w_spawn"
        /\ lockL = WorkerId(s)

\* C7: a force-now call during which no mutation ran returns the values the
\* pipeline gives for the inputs as they are (where it gives any).
C7_ForceNowFresh ==
    \A c \in Callers :
        (pc[c] = "f_done" /\ hist.track /\ ~loc[c].overlap /\ ~hist.raised /\ Calculable)
            => IsFresh(loc[c].ret)

\* C8 as stated: every force-now call that returns has the listener event
\* fired exactly once, by the call itself or by the thread it waited for.
C8_ForceNowNotifiesOnce ==
    \A c \in Callers :
        pc[c] = "f_done" =>
            /\ loc[c].path = "inline" => loc[c].nfired = 1
            /\ loc[c].path = "wait" => loc[c].awaited.nfired = 1

\* C8, amended: every force-now call that returns has the listener event fired
\* exactly once with the values it calculated (inline path) or the thread it
\* waited for calculated (wait path), except that a thread whose run raised has
\* fired no event.
C8_ForceNowNotifies ==
    \A c \in Callers :
        pc[c] = "f_done" =>
            /\ loc[c].path = "inline" =>
                 loc[c].nfired = 1 /\ loc[c].fired = loc[c].copy.values
            /\ loc[c].path = "wait" =>
                 IF loc[c].awaited.raised = ""
                 THEN loc[c].awaited.nfired = 1 /\ loc[c].awaited.fired = loc[c].awaited.copy.values
                 ELSE loc[c].awaited.nfired = 0

\* a force-now call has waited for a thread that fired, and returned
C8_Witness ==
    \E c \in Callers :
        pc[c] = "f_done" /\ loc[c].path = "wait" /\ loc[c].awaited.nfired = 1

\* C9: a force-now call returns the values the force-now call before it
\* returned, when no mutation ran since that call began.
C9_Idempotent ==
    \A c \in Callers :
        (pc[c] = "f_done" /\ loc[c].base.ok) => loc[c].ret = loc[c].base.values

\* C10: a worker whose run raised goes on to its end-of-run bookkeeping, has
\* written no values back and has fired no listener event.
C10_FailedRunIsNoOp ==
    \A s \in Slots :
        workers[s].raised # "" =>
            /\ workers[s].pc \in {"w_end", "w_spawn", "done"}
            /\ ~workers[s].wrote
            /\ workers[s].nfired = 0

\* the pipeline has raised inside a worker
C10_Witness ==
    \E s \in Slots : workers[s].raised = "pipeline" /\ workers[s].pc = "w_end"

\* C11: the tuple a reader gets from values() is one of the snapshots
\* update_values was called with (or the initial one): all six fields come from
\* the same calculation.
C11_SnapshotAtomic ==
    \A c \in Callers : pc[c] = "v_done" => rw.buf \in rw.snaps

\* C12: the display data sent to the listeners never goes back to an older
\* dataset: while every update_data hands in a dataset no older than the one
\* before (the initial state has none), the dataset of the display data sent
\* does not decrease from one event to the next.
C12_NotificationOrder ==
    [][(obs.seq /\ obs'.ordered) => obs'.dd >= obs.dd]_vars

\* C13: while the datasets handed to update_data have non-decreasing
\* timestamps, the display_rgba_timestamp values sent that are not None do not
\* decrease from one event to the next.
C13_MonotonicTimestamps ==
    [][(obs.seq /\ obs'.ordered) => obs'.ts >= obs.ts]_vars

\* close() holds the thread lock in join(), the worker it joins has not ended
Joining == pc[Owner] = "c_wait" /\ workers[loc[Owner].t].pc # "done"

\* C14: a mutator never waits for a lock whose release waits for a worker
\* thread to end: not for the thread lock while close() joins, and not for the
\* values lock while its holder waits for the thread lock that close() holds.
C14_MutatorsNeverWait ==
    \A c \in Callers :
        (Mutating(c) /\ Joining) =>
            /\ pc[c] # "s_spawn"
            /\ pc[c] = "s_send" =>
                 ~ \E s \in Slots : lockL = WorkerId(s) /\ workers[s].pc = "w_spawn"

\* C15: on an open Display whose pipeline has not raised, once the calls and
\* the threads have ended, no listener subscribed with send=True is still
\* waiting for its first event.
C15_SubscriberNotified ==
    (Quiescent /\ obs.on /\ thread_ok /\ ~obs.raised) => ~obs.unnotified

\* two listeners have subscribed, one at least with send=True, every one of
\* them has been sent an event since, and all has ended
C15_Witness ==
    /\ Quiescent /\ obs.on /\ ~obs.raised
    /\ obs.sent /\ ~obs.unnotified
    /\ listener_count > 1

\* C16: when close() returns, the Display has no listener of its calculated
\* display values left and holds no dataset.
C16_CloseDetaches ==
    [][(~closed /\ closed') => (listener_count' = 0 /\ inputs'.data_and_metadata = 0)]_vars

\* C17: a property change or update_data on a closed Display is rejected: it
\* writes no input and does not go on to the dirty flags and the scheduler.
C17_MutationAfterCloseRejected ==
    [][\A c \in Callers :
        (closed /\ pc[c] = "idle") => (inputs' = inputs /\ pc'[c] # "m_dirty")]_vars

\* the value of [0, depth) nearest to v
nearest_valid(v, depth) == py_max(0, py_min(v, depth - 1))

\* C18: with a dataset whose trailing dimension is depth, after slice_center
\* has been set to v the stored slice_center lies in [0, depth) and is the
\* value of that range nearest to v.
C18_SliceCenterClamped ==
    (props.call.name = "slice_center" /\ has_shape(props)) =>
        /\ 0 <= props.slice_center
        /\ props.slice_center < depth_of(props)
        /\ props.slice_center = nearest_valid(props.call.value, depth_of(props))

\* update_data has replaced a dataset by one whose trailing dimension differs,
\* and the slice_center it found was valid for the old one and is out of range
\* for the new one
Shrunk ==
    /\ props.call.name = "update_data"
    /\ has_shape(props)
    /\ props.call.value[1] # 0
    /\ props.call.value[1] # depth_of(props)
    /\ 0 <= props.call.value[2]
    /\ props.call.value[2] < props.call.value[1]
    /\ props.call.value[2] >= depth_of(props)

\* C19: after update_data has replaced the dataset by one with another
\* trailing dimension, for which the slice_center that was valid before is out
\* of range, slice_center lies in [0, new depth).
C19_Reclamped ==
    Shrunk => (0 <= props.slice_center /\ props.slice_center < depth_of(props))

\* the slice_center found lay more than one element beyond the new dataset,
\* and slice_center is now the last element of the new dataset
C19_Witness ==
    /\ Shrunk
    /\ props.slice_center = depth_of(props) - 1
    /\ props.call.value[2] > depth_of(props)

\* the four properties lie in the ranges the dataset allows
InLegalRange(p) ==
    LET dims == p.shape.dimensional_shape
        base == IF p.shape.is_sequence THEN 1 ELSE 0
        size(k) == IF p.shape.collection_dimension_count >= k THEN dims[base + k] ELSE 1
    IN  /\ 0 <= p.sequence_index
        /\ p.sequence_index < (IF p.shape.is_sequence THEN dims[1] ELSE 1)
        /\ \A k \in 1 .. 3 : 0 <= p.collection_index[k] /\ p.collection_index[k] < size(k)
        /\ 0 <= p.slice_center /\ p.slice_center < depth_of(p)
        /\ 1 <= p.slice_width /\ p.slice_width <= depth_of(p)

\* C20: while the properties are read from storage and the Display has no
\* dataset, the value a validating setter is called with is stored as it is;
\* and after update_data has handed a dataset to a Display that had none, the
\* four properties lie in the ranges the dataset allows.
C20_RestoredThenValidated ==
    /\ (props.is_reading /\ ~has_shape(props)
            /\ props.call.name \in {"sequence_index", "collection_index",
                                    "slice_center", "slice_width"})
         => props[props.call.name] = props.call.value
    /\ (props.call.name = "update_data" /\ props.call.value[1] = 0 /\ has_shape(props))
         => InLegalRange(props)

\* C22: a recomputation without a dataset does not raise, and the display
\* data, the data range and the image it yields are absent.
C22_NoDataIsNoError ==
    \A s \in Slots :
        workers[s].copy.inputs.data_and_metadata = 0 =>
            /\ workers[s].raised # "pipeline"
            /\ (workers[s].wrote /\ workers[s].copy.dirty = AllDirty) =>
                  /\ workers[s].copy.values.display_data_and_metadata = NoneT
                  /\ workers[s].copy.values.data_range = NoneT
                  /\ workers[s].copy.values.display_rgba = NoneT

\* caller c waits for the thread of slot s to end (join)
WaitsFor(c, s) == pc[c] \in {"c_wait", "f_join"} /\ loc[c].t = s

\* C28: while a thread executes the pipeline, it holds neither the values lock
\* nor the thread lock, and no thread that waits for it to end holds one of
\* them.
C28_NoLockDuringPipeline ==
    \A s \in Slots :
        workers[s].pc = "w_calc" =>
            /\ lockL # WorkerId(s)
            /\ lockTL # WorkerId(s)
            /\ \A c \in Callers :
                 WaitsFor(c, s) => (lockL # CallerId(c) /\ lockTL # CallerId(c))

\* the thread of slot s cannot go on: it waits for the thread lock to start its
\* successor, and the holder of the thread lock waits for it to end
Stuck(s) ==
    /\ workers[s].pc = "w_spawn"
    /\ \E c \in Callers : WaitsFor(c, s) /\ lockTL = CallerId(c)

\* the worker handle is a thread that has not ended
HandleIsLive == thread # 0 => workers[thread].pc \in Live

\* C25: the scheduler is never stuck in Running: the worker handle is None or
\* a thread that has not ended and that can go on to its end, where it clears
\* the handle or replaces it by its successor.
C25_NeverStuckRunning ==
    /\ HandleIsLive
    /\ thread # 0 => ~Stuck(thread)

\* the step of caller c is __send_next_calculated_display_values of an
\* invalidation that finds an open Display without a worker
InvalidationFindsIdle(c) ==
    /\ pc[c] = "s_send"
    /\ pc'[c] # "s_send"
    /\ Mutating(c)
    /\ ~closed
    /\ thread = 0

\* the step of caller c starts a thread and makes it the worker handle
StartsWorker(c) ==
    /\ pc[c] = "s_spawn"
    /\ pc'[c] # "s_spawn"
    /\ thread' # 0
    /\ workers[thread'].pc = "free"
    /\ workers'[thread'].pc = "w_begin"

C26_FailureKeepsStagesDirty ==
    (pc[Owner] = "f_done" /\ loc[Owner].path = "inline" /\ hist.failed) =>
        /\ values.display_data_and_metadata = calculate_display_data_and_metadata(inputs)
        /\ values.data_range = calculate_data_range(inputs, calculate_display_data_and_metadata(inputs))

\* display_limits with each side that is None replaced by the bound of the
\* data range
limits_or_range(display_limits, data_range) ==
    << IF display_limits[1] = NoneV THEN data_range[1] ELSE display_limits[1],
       IF display_limits[2] = NoneV THEN data_range[2] ELSE display_limits[2] >>

\* the copies on which a run has computed the display range: those of the
\* workers that wrote their values back, and those of the force-now calls past
\* the computation
RangeComputed ==
    {workers[s].copy : s \in {t \in Slots : workers[t].wrote /\ workers[t].copy.dirty.display_range}}
        \cup {loc[c].copy : c \in {d \in Callers : /\ pc[d] \in {"f_pend", "f_fire", "f_ret", "f_done"}
                                                     /\ loc[d].copy.dirty.display_range}}

\* C21: with display_limits set, the display range a run computes is
\* display_limits with each side that is None replaced by the bound of the data
\* range, whatever the type of the data and the complex display type;
\* display_limits (0, 50) gives the display range (0, 50).
C21_DisplayRangeFromLimits ==
    \A cp \in RangeComputed :
        cp.inputs.display_limits # NoneT =>
            /\ cp.values.display_range = limits_or_range(cp.inputs.display_limits, cp.values.data_range)
            /\ cp.inputs.display_limits = <<0, 50>> => cp.values.display_range = <<0, 50>>

\* a run on complex data shown log-absolute, with the lower limit None, has
\* computed the display range from the data range and the upper limit
C21_Witness ==
    \E cp \in RangeComputed :
        /\ cp.inputs.display_limits = <<NoneV, 50>>
        /\ IsComplex(cp.inputs.data_and_metadata) /\ cp.inputs.complex_display_type = 0
        /\ cp.values.data_sample # NoneT
        /\ cp.values.display_range = <<cp.values.data_range[1], 50>>

\* C23: the value of a property is written into the calculator, and with it
\* any recomputation can take it up, only after display_data_will_change_event
\* has fired for the change.
C23_WillChangeFirst ==
    [][/\ \A c \in Callers : (pc[c] = "p_set" /\ pc'[c] # "p_set") => props.announced
       /\ \A k \in InputKinds :
            inputs'[k] # inputs[k] =>
                \E c \in Callers : pc[c] = "p_set" /\ loc[c].kind = k /\ props.announced]_vars

\* slice_center has been changed and written to the calculator, the event
\* fired, while a worker computes
C23_Witness ==
    /\ pc[Owner] = "m_dirty" /\ loc[Owner].kind = "slice_center"
    /\ props.call.name = "slice_center" /\ props.slice_center = props.call.value
    /\ props.announced
    /\ \E s \in Slots : workers[s].pc = "w_calc"

\* C27: the setter of the dataset, of a sequence or slice property and of the
\* complex display type marks the three stages; the setter of display_limits
\* marks the display range and the image and leaves the display-data flag as
\* it is; the setter of the color map marks the image and leaves the other two
\* flags as they are.
C27_SettersMarkDownstream ==
    [][\A c \in Callers :
        (pc[c] = "m_dirty" /\ pc'[c] # "m_dirty") =>
            /\ loc[c].kind \in {"data_and_metadata", "complex_display_type"} \cup SliceKinds
                 => dirty' = AllDirty
            /\ loc[c].kind = "display_limits"
                 => /\ dirty'.display_range /\ dirty'.display_rgba
                    /\ dirty'.display_data = dirty.display_data
            /\ loc[c].kind = "color_map_data"
                 => /\ dirty'.display_rgba
                    /\ dirty'.display_data = dirty.display_data
                    /\ dirty'.display_range = dirty.display_range]_vars

\* the color map has been set after a computation: the image alone is marked
C27_Witness ==
    /\ pc[Owner] = "s_send" /\ loc[Owner].kind = "color_map_data"
    /\ dirty = [display_data |-> FALSE, display_range |-> FALSE, display_rgba |-> TRUE]

\* the sequence index and the collection index lie in the ranges the dataset
\* allows: 0 for data that is no sequence and for the dimensions the
\* collection has not
IndexesInRange(p) ==
    LET dims == p.shape.dimensional_shape
        base == IF p.shape.is_sequence THEN 1 ELSE 0
        size(k) == IF p.shape.collection_dimension_count >= k THEN dims[base + k] ELSE 1
    IN  /\ 0 <= p.sequence_index
        /\ p.sequence_index < (IF p.shape.is_sequence THEN dims[1] ELSE 1)
        /\ \A k \in 1 .. 3 : 0 <= p.collection_index[k] /\ p.collection_index[k] < size(k)

\* C29: whenever the Display has a dataset and is not reading its properties
\* from storage, sequence_index lies in [0, max_sequence_index) for a sequence
\* and is 0 otherwise, and each component of collection_index lies within its
\* collection dimension and is 0 for a dimension the collection has not, also
\* after update_data with a dataset of the same data shape and another layout.
C29_IndexesInRange ==
    (has_shape(props) /\ ~props.is_reading) => IndexesInRange(props)

\* the slice lies within the trailing dimension of the dataset
SliceWindowInRange(p) ==
    /\ 1 <= p.slice_width /\ p.slice_width <= depth_of(p)
    /\ p.slice_width <= py_max(2 * py_min(p.slice_center, depth_of(p) - p.slice_center), 1)

\* C30: whenever the Display has a dataset, of depth at least 1, slice_width
\* lies in [1, depth] and is at most max(2 * min(slice_center, depth -
\* slice_center), 1), after any slice setter calls, reading from storage and
\* update_data calls.
C30_SliceWindowInRange ==
    has_shape(props) => SliceWindowInRange(props)

\* the dirty flags are closed downstream: a dirty stage has its later stages dirty
closed_downstream(f) ==
    /\ f.display_data => f.display_range
    /\ f.display_range => f.display_rgba

\* C33: in every state of the calculator, and of every copy a worker or a
\* force-now call has taken of it, display_data_dirty implies
\* display_range_dirty and display_range_dirty implies display_rgba_dirty,
\* whatever the interleaving of setters and copy_and_calculate.
C33_DirtyClosedDownstream ==
    /\ closed_downstream(dirty)
    /\ \A s \in Slots : closed_downstream(workers[s].copy.dirty)
    /\ \A c \in Callers : closed_downstream(loc[c].copy.dirty)

\* display_limits has been set while a worker computes on the copy that took
\* the flags, and the color map is being set
C33_Witness ==
    /\ dirty = [display_data |-> FALSE, display_range |-> TRUE, display_rgba |-> TRUE]
    /\ \E s \in Slots : workers[s].pc = "w_calc" /\ workers[s].copy.dirty = AllDirty
    /\ pc[Owner] = "m_dirty" /\ loc[Owner].kind = "color_map_data"

\* C34: whenever no call and no thread is in progress, the pending flag and
\* the three dirty flags are clear and the stored values are those the pipeline
\* gives for the inputs as they are.
C34_QuiescentConsistency ==
    Quiescent => (~pending /\ dirty = AllClean /\ IsFresh(values))

\* the graphics in a list
range_of(list) == {list[i] : i \in 1 .. Len(list)}

\* a graphic has been inserted into, removed from the Display
Inserted == Len(graphics'.items) = Len(graphics.items) + 1
Removed == Len(graphics'.items) = Len(graphics.items) - 1

\* the selected graphics are those selected before, but for a removed graphic
SelectionFollowsGraphics ==
    /\ Inserted => selected_graphics(graphics') = selected_graphics(graphics)
    /\ Removed => selected_graphics(graphics') =
                      selected_graphics(graphics) \cap range_of(graphics'.items)

\* every selected index is an index into graphics
ValidIndexes ==
    graphics.graphic_selection => graphics.indexes \subseteq 0 .. (Len(graphics.items) - 1)

\* insert_index(i) followed by remove_index(i) gives the indexes back
InsertRemoveRestores ==
    \A i \in 0 .. Len(graphics.items) :
        remove_index(insert_index(graphics.indexes, i), i) = graphics.indexes

\* C40: after a graphic is inserted at any index or removed at any index
\* through the Display, the selected graphics are those selected before
\* without the removed graphic, every selected index is an index into
\* graphics, and insert_index(i) followed by remove_index(i) gives the indexes
\* back.
C40_SelectionFollowsGraphics ==
    /\ [][SelectionFollowsGraphics]_vars
    /\ [](ValidIndexes /\ InsertRemoveRestores)

\* a graphic has been inserted between two selected graphics
C40_Witness ==
    /\ graphics.call = "insert_graphic"
    /\ Len(graphics.items) = 3
    /\ graphics.indexes = {0, 2}

\* C36: a close() that raises, on a Display about_to_be_removed() has not been
\* called on or that is closed already, leaves the Display as it found it: the
\* thread_ok flag, the thread, the listeners of the graphics, the selected
\* indexes and graphic_selection.
C36_RejectedCloseNoEffect ==
    (graphics.call = "close" /\ graphics.raised # "") =>
        /\ thread_ok = graphics.before.thread_ok
        /\ thread = graphics.before.thread
        /\ graphics.graphic_changed_listeners = graphics.before.graphic_changed_listeners
        /\ graphics.indexes = graphics.before.indexes
        /\ graphics.graphic_selection = graphics.before.graphic_selection

\* the connection has its binding and its listener: source and target are
\* registered and the connection has not been closed
Bound == connection.binding /\ connection.target_listener

\* C31: with source and target registered, when a call that sets the bound
\* source property or the bound target property has returned, the two
\* properties hold the same value.
C31_PropertiesEqual ==
    (Bound /\ connection.call \in {"source", "target"} /\ connection.raised = "")
        => connection.source_value = connection.target_value

\* C37: whenever no propagation is in progress __suppress is False, also after
\* a propagation whose property setter raised, and every later change is
\* propagated.
C37_SuppressOnlyDuringPropagation ==
    /\ ~connection.suppress
    /\ (Bound /\ connection.call = "source" /\ connection.raised = "")
         => connection.target_value = target_stored(connection, connection.source_value)

\* _closed implies _about_to_be_removed, and neither call has completed twice
ClosedOnceRemoved(is_closed, is_removed, completed) ==
    /\ is_closed => is_removed
    /\ completed.about_to_be_removed <= 1
    /\ completed.close <= 1

\* the last call was a call of name after one that completed, and it raised
SecondCall(h, name) == h.call = name /\ h.raised # "" /\ h.completed[name] = 1

C32_IntervalsMirrored ==
    (interval_list.source /\ interval_list.target) =>
        LET regions == SelectSeq(interval_list.items, IsIntervalGraphic)
        IN  /\ interval_list.interval_descriptors = descriptors_of(interval_list, regions)
            /\ interval_list.interval_mutated_listeners = regions

\* the interval of one of two interval graphics, with another graphic between
\* them, has been set
C32_Witness ==
    /\ interval_list.source /\ interval_list.target
    /\ interval_list.call = "interval"
    /\ interval_list.items = <<3, 2, 1>>
    /\ interval_list.interval_descriptors = <<1, 0>>

\* C38: once close() of the display thread has returned, every data item has
\* had as many remove_ref as add_ref calls.
C38_ReferenceBalance ==
    (display_thread.closing \in {"returned", "done"}) =>
        \A d \in DataItems : display_thread.refs[d] = 0

\* close() has been called
CloseCalled == display_thread.closing # "idle"

\* C39: while close() is not called, every update_data is followed by a
\* process_data on its data or on later data; process_data is never given
\* data older than it was given before; close() returns, and no process_data
\* is invoked after it has returned.
C39_LatestWins ==
    /\ \A n \in 1 .. MaxUpdates :
           (display_thread.handed >= n) ~> (display_thread.processed >= n \/ CloseCalled)
    /\ [][display_thread'.processed >= display_thread.processed]_vars
    /\ CloseCalled ~> (display_thread.closing = "done")
    /\ [][display_thread.closing \in {"returned", "done"}
             => display_thread'.invoked = display_thread.invoked]_vars

\* three data items were handed over, the second was replaced before it was
\* grabbed, the first and the third were processed, and close() has returned
C39_Witness ==
    /\ display_thread.handed = 3
    /\ display_thread.invoked = 2
    /\ display_thread.processed = 3
    /\ display_thread.closing = "done"

====
